---- MODULE Spec2Model ----
(***************************************************************************)
(* mova: compilation of a state-machine source (ast.go) into a             *)
(* CompiledMachine and the runtime dispatch of events (statemachine.go).   *)
(*                                                                         *)
(* Go maps are modelled as TLA+ functions over finite sets of strings.     *)
(* A host value (Go `any`) is a record [hk, v]: hk is the dynamic type     *)
(* ("int", "int64", "float64", "string", "bool", ...), v the value written *)
(* as a string.  Go's == on two interface values is equality of dynamic    *)
(* type and value, i.e. equality of these records.                         *)
(***************************************************************************)
EXTENDS Integers, Sequences, FiniteSets, TLC

VARIABLES ast, built, cm, current, last, toks, parsed, source, lex, produced

machineVars == <<ast, built, cm, current, last>>

parserVars == <<toks, parsed>>

lexerVars == <<source, lex, produced>>

vars == <<ast, built, cm, current, last, toks, parsed, source, lex, produced>>

(***************************************************************************)
(* Maps                                                                    *)
(***************************************************************************)
EmptyMap == [k \in {} |-> ""]

Has(m, k) == k \in DOMAIN m

Put(m, k, x) == [j \in DOMAIN m \cup {k} |-> IF j = k THEN x ELSE m[j]]

Delete(m, k) == [j \in DOMAIN m \ {k} |-> m[j]]

\* maps.Clone followed by assignments of every key of `over`
Overlay(m, over) ==
  [j \in DOMAIN m \cup DOMAIN over |-> IF j \in DOMAIN over THEN over[j] ELSE m[j]]

(***************************************************************************)
(* ast.go: ValueType                                                       *)
(***************************************************************************)
ValueString == 0
ValueInt == 1
ValueFloat == 2
ValueBool == 3
ValueConstant == 4

(***************************************************************************)
(* Errors.  NoErr is Go's nil error, EOF is io.EOF.                        *)
(***************************************************************************)
\* `cause` and `var` are the kind and the name of the error a %w wraps
Err(kind, name) == [kind |-> kind, name |-> name, cause |-> "", var |-> ""]

NoErr == Err("nil", "")

EOF == Err("EOF", "")

\* a Go stack overflow (unbounded recursion) ends the process
Fatal == Err("stack_overflow", "")

(***************************************************************************)
(* Host values and ast.go Value variants                                   *)
(***************************************************************************)
HV(hk, v) == [hk |-> hk, v |-> v]

NilAny == HV("nil", "")

StringValue(s) == [k |-> "StringValue", v |-> s, hk |-> "", t |-> 0]

IntValue(n) == [k |-> "IntValue", v |-> n, hk |-> "", t |-> 0]

FloatValue(f) == [k |-> "FloatValue", v |-> f, hk |-> "", t |-> 0]

BoolValue(b) == [k |-> "BoolValue", v |-> b, hk |-> "", t |-> 0]

ConstantValue(hv) == [k |-> "ConstantValue", v |-> hv.v, hk |-> hv.hk, t |-> 0]

ReferenceValue(ref) == [k |-> "ReferenceValue", v |-> ref, hk |-> "", t |-> 0]

TypeDummyValue(typ) == [k |-> "TypeDummyValue", v |-> "", hk |-> "", t |-> typ]

\* Arg.Value == nil (a parameter written without "= value")
NilValue == [k |-> "nil", v |-> "", hk |-> "", t |-> 0]

\* EvalValue of every variant; `depth` counts the references followed so far:
\* a chain longer than the context has names is a cycle, on which the Go
\* recursion never returns.
RECURSIVE EvalValueAt(_, _, _)
EvalValueAt(val, ctx, depth) ==
  CASE val.k = "StringValue" -> [err |-> NoErr, val |-> HV("string", val.v)]
    [] val.k = "IntValue" -> [err |-> NoErr, val |-> HV("int64", val.v)]
    [] val.k = "FloatValue" -> [err |-> NoErr, val |-> HV("float64", val.v)]
    [] val.k = "BoolValue" -> [err |-> NoErr, val |-> HV("bool", val.v)]
    [] val.k = "ConstantValue" -> [err |-> NoErr, val |-> HV(val.hk, val.v)]
    [] val.k = "TypeDummyValue" ->
         [err |-> Err("dummy_not_evaluable", ""), val |-> NilAny]
    [] val.k = "ReferenceValue" ->
         IF ~Has(ctx, val.v)
           THEN [err |-> Err("undefined_variable", val.v), val |-> NilAny]
           ELSE IF depth > Cardinality(DOMAIN ctx)
             THEN [err |-> Fatal, val |-> NilAny]
             ELSE EvalValueAt(ctx[val.v], ctx, depth + 1)

EvalValue(val, ctx) == EvalValueAt(val, ctx, 0)

RECURSIVE EvalTypeAt(_, _, _)
EvalTypeAt(val, ctx, depth) ==
  CASE val.k = "StringValue" -> [err |-> NoErr, typ |-> ValueString]
    [] val.k = "IntValue" -> [err |-> NoErr, typ |-> ValueInt]
    [] val.k = "FloatValue" -> [err |-> NoErr, typ |-> ValueFloat]
    [] val.k = "BoolValue" -> [err |-> NoErr, typ |-> ValueBool]
    [] val.k = "ConstantValue" -> [err |-> NoErr, typ |-> ValueConstant]
    [] val.k = "TypeDummyValue" -> [err |-> NoErr, typ |-> val.t]
    [] val.k = "ReferenceValue" ->
         IF ~Has(ctx, val.v)
           THEN [err |-> Err("undefined_variable", val.v), typ |-> 0]
           ELSE IF depth > Cardinality(DOMAIN ctx)
             THEN [err |-> Fatal, typ |-> 0]
             ELSE EvalTypeAt(ctx[val.v], ctx, depth + 1)

EvalType(val, ctx) == EvalTypeAt(val, ctx, 0)

(***************************************************************************)
(* statemachine.go: fitType                                                *)
(***************************************************************************)
IntKinds ==
  {"int", "int8", "int16", "int32", "int64",
   "uint", "uint8", "uint16", "uint32", "uint64"}

FloatKinds == {"float32", "float64"}

fitType(hv) ==
  CASE hv.hk = "string" -> [err |-> NoErr, val |-> StringValue(hv.v)]
    [] hv.hk \in IntKinds -> [err |-> NoErr, val |-> IntValue(hv.v)]
    [] hv.hk \in FloatKinds -> [err |-> NoErr, val |-> FloatValue(hv.v)]
    [] hv.hk = "bool" -> [err |-> NoErr, val |-> BoolValue(hv.v)]
    [] hv.hk = "Stringer" -> [err |-> NoErr, val |-> StringValue(hv.v)]
    [] OTHER -> [err |-> Err("cannot_accept", hv.hk), val |-> NilValue]

(***************************************************************************)
(* statemachine.go: Condition.Test, CompiledTrigger.Test                   *)
(***************************************************************************)
\* the loop over cond.Value, from the keys not yet visited
RECURSIVE ConditionTestFrom(_, _, _)
ConditionTestFrom(value, keys, inputs) ==
  IF keys = {} THEN TRUE
  ELSE LET name == CHOOSE n \in keys : TRUE
       IN IF ~Has(inputs, name) THEN FALSE
          ELSE IF value[name] # inputs[name] THEN FALSE
          ELSE ConditionTestFrom(value, keys \ {name}, inputs)

\* mutant: the constraints are not compared
ConditionTestNameOnly(cond, name, inputs) == cond.TriggerName = name

ConditionTest(cond, name, inputs) ==
  IF cond.TriggerName # name THEN FALSE
  ELSE ConditionTestFrom(cond.Value, DOMAIN cond.Value, inputs)

RECURSIVE TriggerTestFrom(_, _, _, _)
TriggerTestFrom(conds, i, name, inputs) ==
  IF i > Len(conds) THEN FALSE
  ELSE IF ConditionTest(conds[i], name, inputs) THEN TRUE
  ELSE TriggerTestFrom(conds, i + 1, name, inputs)

TriggerTest(trg, name, inputs) == TriggerTestFrom(trg.cond, 1, name, inputs)

(***************************************************************************)
(* Observation of one call.  A run state is [cur, trace, err]: the         *)
(* instance's current state name ("" is the nil pointer), the events of    *)
(* the call so far, and the error being returned.                          *)
(*   "call"     a Call action ran: the registry callable `name` was        *)
(*              invoked with the map ctx                                   *)
(*   "move"     a move action to `name` started                            *)
(*   "enter"    m.current was set to `state`                               *)
(*   "initdone" the init batch of `state` returned nil                     *)
(*   "movefail" move found no state `name`; `state` was current            *)
(* from/state/trg/pos say where a "call" or "move" action stands: in the   *)
(* init list of `state` (from = "init") or in the action list of trigger   *)
(* number trg of `state` (from = "trigger"), at position pos.              *)
(***************************************************************************)
NoState == ""

Origin(from, state, trg) == [from |-> from, state |-> state, trg |-> trg]

ActionEvent(ev, name, origin, pos, ctx) ==
  [ev |-> ev, name |-> name, from |-> origin.from, state |-> origin.state,
   trg |-> origin.trg, pos |-> pos, ctx |-> ctx]

StateEvent(ev, state, name) ==
  [ev |-> ev, name |-> name, from |-> "", state |-> state,
   trg |-> 0, pos |-> 0, ctx |-> EmptyMap]

\* `written` holds the entries the call assigned in the map m.constants, which
\* every instance shares with the compiled machine (New copies the struct,
\* not the maps).
RunState(cur) == [cur |-> cur, trace |-> <<>>, err |-> NoErr, written |-> EmptyMap]

Log(rs, event) == [rs EXCEPT !.trace = Append(@, event)]

(***************************************************************************)
(* statemachine.go: batch, move; ast.go: Call.Execute, MoveStmt.Execute    *)
(***************************************************************************)
\* batch lines 106-113: every value of ctx is evaluated, in Go's map order
\* (unspecified): with several failing names any of their errors may be the
\* one returned.
EvalCtx(ctx) ==
  LET res == [n \in DOMAIN ctx |-> EvalValue(ctx[n], ctx)]
      failing == {n \in DOMAIN ctx : res[n].err # NoErr}
  IN IF failing = {}
       THEN {[err |-> NoErr, eval |-> [n \in DOMAIN ctx |-> res[n].val]]}
       ELSE {[err |-> res[n].err, eval |-> EmptyMap] : n \in failing}

\* the closure Call.Execute returns: invokes spec.Function(ctx), returns nil
CallAction(name) == [a |-> "call", name |-> name]

\* the closure MoveStmt.Execute returns: m.move(ms.Dest)
MoveAction(dest) == [a |-> "move", name |-> dest]

RECURSIVE RunActions(_, _, _, _, _, _, _)
RECURSIVE move(_, _, _, _)
RECURSIVE batch(_, _, _, _, _, _)

\* batch lines 114-119.  `stack` holds the states whose init batch is
\* running: the machine is immutable, so a move to one of them repeats the
\* same calls without end.
\* mutant: the error an action returns is dropped and the loop goes on
RunActionsIgnoreError(mach, actions, pos, eval, origin, stack, rs) ==
  IF pos > Len(actions) THEN {rs}
  ELSE IF actions[pos].a = "call"
    THEN RunActions(mach, actions, pos + 1, eval, origin, stack,
                    Log(rs, ActionEvent("call", actions[pos].name, origin, pos, eval)))
    ELSE UNION {
           IF o.err = Fatal THEN {o}
           ELSE RunActions(mach, actions, pos + 1, eval, origin, stack,
                           [o EXCEPT !.err = NoErr])
           : o \in move(mach, actions[pos].name, stack,
                        Log(rs, ActionEvent("move", actions[pos].name, origin, pos, EmptyMap)))}

RunActions(mach, actions, pos, eval, origin, stack, rs) ==
  IF pos > Len(actions) THEN {rs}
  ELSE LET action == actions[pos]
       IN IF action.a = "call"
            THEN RunActions(mach, actions, pos + 1, eval, origin, stack,
                            Log(rs, ActionEvent("call", action.name, origin, pos, eval)))
            ELSE UNION {
                   IF o.err = NoErr
                     THEN RunActions(mach, actions, pos + 1, eval, origin, stack, o)
                     ELSE {o}
                   : o \in move(mach, action.name, stack,
                                Log(rs, ActionEvent("move", action.name, origin, pos, EmptyMap)))}

batch(mach, actions, ctx, origin, stack, rs) ==
  UNION {
    IF e.err = NoErr
      THEN RunActions(mach, actions, 1, e.eval, origin, stack, rs)
      ELSE {[rs EXCEPT !.err = e.err]}
    : e \in EvalCtx(ctx)}

\* mutant: the failed move leaves the instance without a current state
moveUnknownReset(dest, rs) ==
  {[Log(rs, StateEvent("movefail", NoState, dest)) EXCEPT
      !.cur = NoState, !.err = Err("unknown_state", dest)]}

moveUnknown(dest, rs) ==
  {[Log(rs, StateEvent("movefail", rs.cur, dest)) EXCEPT !.err = Err("unknown_state", dest)]}

moveEnter(dest, rs) == [Log(rs, StateEvent("enter", dest, dest)) EXCEPT !.cur = dest]

\* mutant: the destination becomes current, its init actions do not run
moveNoInit(mach, dest, stack, rs) ==
  IF ~Has(mach.states, dest) THEN moveUnknown(dest, rs)
  ELSE {Log(moveEnter(dest, rs), StateEvent("initdone", dest, dest))}

move(mach, dest, stack, rs) ==
  IF ~Has(mach.states, dest) THEN moveUnknown(dest, rs)
  ELSE IF dest \in stack THEN {[moveEnter(dest, rs) EXCEPT !.err = Fatal]}
  ELSE {IF o.err = NoErr THEN Log(o, StateEvent("initdone", dest, dest)) ELSE o
        : o \in batch(mach, mach.states[dest].Init, mach.constants,
                      Origin("init", dest, 0), stack \cup {dest}, moveEnter(dest, rs))}

(***************************************************************************)
(* statemachine.go: StateMachine.Emit                                      *)
(***************************************************************************)
\* the first trigger from index i on that Test accepts, 0 when none does
RECURSIVE SelectTrigger(_, _, _, _)

\* mutant: the loop does not stop at the first match, the last one wins
SelectTriggerLast(triggers, i, name, inputs) ==
  IF i > Len(triggers) THEN 0
  ELSE IF SelectTrigger(triggers, i + 1, name, inputs) # 0
    THEN SelectTrigger(triggers, i + 1, name, inputs)
  ELSE IF TriggerTest(triggers[i], name, inputs) THEN i ELSE 0

SelectTrigger(triggers, i, name, inputs) ==
  IF i > Len(triggers) THEN 0
  ELSE IF TriggerTest(triggers[i], name, inputs) THEN i
  ELSE SelectTrigger(triggers, i + 1, name, inputs)

\* mutant: an integer given for a declared float is converted
BindOneCoerce(name, argtype, constants, inputs) ==
  IF ~Has(inputs, name)
    THEN [err |-> Err("missing_event_data", name), val |-> NilValue]
  ELSE IF argtype = ValueFloat /\ inputs[name].hk \in IntKinds
    THEN [err |-> NoErr, val |-> FloatValue(inputs[name].v)]
  ELSE [err |-> NoErr, val |-> ConstantValue(inputs[name])]

\* Emit lines 175-194, for one name of trg.datatypes
BindOne(name, argtype, constants, inputs) ==
  IF ~Has(inputs, name)
    THEN [err |-> Err("missing_event_data", name), val |-> NilValue]
  ELSE IF argtype # ValueConstant
    THEN LET fit == fitType(inputs[name])
         IN IF fit.err # NoErr THEN fit
            ELSE LET vt == EvalType(fit.val, constants)
                 IN IF vt.err # NoErr THEN [err |-> vt.err, val |-> NilValue]
                    ELSE IF vt.typ # argtype
                      THEN [err |-> Err("type_mismatch_event_data", name), val |-> NilValue]
                      ELSE [err |-> NoErr, val |-> fit.val]
    ELSE [err |-> NoErr, val |-> ConstantValue(inputs[name])]

\* Emit lines 173-195: the loop over trg.datatypes runs in Go's map order, so
\* with several names that fail any of their errors may be the one returned.
BindEventData(trg, constants, inputs) ==
  LET res == [n \in DOMAIN trg.datatypes |->
                BindOne(n, trg.datatypes[n], constants, inputs)]
      failing == {n \in DOMAIN trg.datatypes : res[n].err # NoErr}
  IN IF failing = {}
       THEN {[err |-> NoErr,
              ctx |-> Overlay(constants, [n \in DOMAIN trg.datatypes |-> res[n].val])]}
       ELSE {[err |-> res[n].err, ctx |-> EmptyMap] : n \in failing}

\* mutant: falling out of the loop returns nil
NoTriggerMatchedNil(rs) == {rs}

\* mutant: falling out of the loop returns nil or io.EOF
NoTriggerMatchedEither(rs) == {rs, [rs EXCEPT !.err = EOF]}

\* Emit line 198: no trigger of the current state accepted the event
NoTriggerMatched(rs) == {[rs EXCEPT !.err = EOF]}

\* mutant: ctx is m.constants itself, the event-data is assigned in it
BindWritesShared(trg, ctx) == [n \in DOMAIN trg.datatypes |-> ctx[n]]

\* Emit line 173: ctx is a clone of m.constants, so the assignments
\* ctx[name] = ... of lines 190-192 assign nothing in m.constants
BindWrites(trg, ctx) == EmptyMap

\* the run states one Emit(name, inputs) can end in, on an instance whose
\* current state is cur
EmitRuns(mach, cur, name, inputs) ==
  LET triggers == mach.states[cur].Triggers
      sel == SelectTrigger(triggers, 1, name, inputs)
      rs == RunState(cur)
  IN IF sel = 0 THEN NoTriggerMatched(rs)
     ELSE UNION {
            IF b.err # NoErr THEN {[rs EXCEPT !.err = b.err]}
            ELSE batch(mach, triggers[sel].actions, b.ctx,
                       Origin("trigger", cur, sel), {},
                       [rs EXCEPT !.written = BindWrites(triggers[sel], b.ctx)])
            : b \in BindEventData(triggers[sel], mach.constants, inputs)}

\* mutant: New sets the current state and runs no init action
NewRunsNoInit(mach) == {moveEnter(mach.firstState, RunState(NoState))}

\* CompiledMachine.New: m.move(m.firstState) on a fresh instance
NewRuns(mach) == move(mach, mach.firstState, {}, RunState(NoState))

(***************************************************************************)
(* The AST of ast.go.                                                      *)
(*   Arg          [key, value]         value = NilValue when omitted       *)
(*   Statement    Call [s = "call", name, args] | MoveStmt [s = "move",    *)
(*                name = Dest]                                             *)
(*   TriggerCond  [name, params]                                           *)
(*   Trigger      [cond, actions]                                          *)
(*   Entry        State [e = "state", name, init, triggers] |              *)
(*                SetStmt [e = "set", name = Key, value]                   *)
(***************************************************************************)
Arg(key, value) == [key |-> key, value |-> value]

Call(name, args) == [s |-> "call", name |-> name, args |-> args]

MoveStmt(dest) == [s |-> "move", name |-> dest, args |-> <<>>]

TriggerCond(name, params) == [name |-> name, params |-> params]

Trigger(cond, actions) == [cond |-> cond, actions |-> actions]

State(name, init, triggers) ==
  [e |-> "state", name |-> name, init |-> init, triggers |-> triggers,
   value |-> NilValue]

SetStmt(key, value) ==
  [e |-> "set", name |-> key, init |-> <<>>, triggers |-> <<>>, value |-> value]

(***************************************************************************)
(* ast.go: Call.CheckType, MoveStmt.CheckType, Execute                     *)
(* A loop "for ... { if err != nil { return err } }" is a pair of          *)
(* operators: X(.., i, ..) runs iteration i and XStep decides on its       *)
(* result whether the loop returns or goes on with i + 1.                  *)
(***************************************************************************)
\* an error of EvalType/EvalValue wrapped by the caller (%w); a stack
\* overflow is no error value, it ends the process
Wrap(kind, name, inner) ==
  IF inner = Fatal THEN Fatal
  ELSE [kind |-> kind, name |-> name, cause |-> inner.kind, var |-> inner.name]

\* Call.CheckType lines 172-178: vt is param.Value.EvalType(ctx)
CheckArgType(key, argtype, vt) ==
  IF vt.err # NoErr THEN Wrap("cannot_determine_type", key, vt.err)
  ELSE IF vt.typ # argtype THEN Err("type_mismatch_argument", key)
  ELSE NoErr

\* mutant: an argument the action does not declare is let through
CallCheckArgAnyName(param, inputs, ctx) ==
  IF ~Has(inputs, param.key) THEN NoErr
  ELSE CheckArgType(param.key, inputs[param.key], EvalType(param.value, ctx))

\* Call.CheckType lines 168-178, for one argument
CallCheckArg(param, inputs, ctx) ==
  IF ~Has(inputs, param.key) THEN Err("unspecified_argument", param.key)
  ELSE CheckArgType(param.key, inputs[param.key], EvalType(param.value, ctx))

RECURSIVE CallCheckArgs(_, _, _, _)
CallCheckArgsStep(args, i, inputs, ctx, err) ==
  IF err # NoErr THEN err ELSE CallCheckArgs(args, i + 1, inputs, ctx)

CallCheckArgs(args, i, inputs, ctx) ==
  IF i > Len(args) THEN NoErr
  ELSE CallCheckArgsStep(args, i, inputs, ctx, CallCheckArg(args[i], inputs, ctx))

CallCheckType(c, ctx, reg) ==
  IF ~Has(reg.Actions, c.name) THEN Err("unspecified_action", c.name)
  ELSE CallCheckArgs(c.args, 1, reg.Actions[c.name].Inputs, ctx)

CheckType(stmt, ctx, reg) ==
  IF stmt.s = "move" THEN NoErr ELSE CallCheckType(stmt, ctx, reg)

Execute(stmt, reg) ==
  IF stmt.s = "move" THEN MoveAction(stmt.name) ELSE CallAction(stmt.name)

\* the loops "CheckType, then append Execute" of State.EvalToplevel (103-108)
\* and evalTrigger (92-97): [err, actions]
RECURSIVE CompileStatements(_, _, _, _, _)
CompileStatementsStep(stmts, i, ctx, reg, done, err) ==
  IF err # NoErr THEN [err |-> err, actions |-> done]
  ELSE CompileStatements(stmts, i + 1, ctx, reg, Append(done, Execute(stmts[i], reg)))

CompileStatements(stmts, i, ctx, reg, done) ==
  IF i > Len(stmts) THEN [err |-> NoErr, actions |-> done]
  ELSE CompileStatementsStep(stmts, i, ctx, reg, done, CheckType(stmts[i], ctx, reg))

(***************************************************************************)
(* ast.go: Trigger.evalTrigger                                             *)
(* acc = [err, value, prevkeys, datatypes, local] is the state of the loop *)
(* over one condition's parameters: cond.Value, prevkeys, out.datatypes    *)
(* and local.  out = [err, cond, datatypes, local] is the state of the     *)
(* loop over the conditions.                                               *)
(***************************************************************************)
\* lines 71-79
DeclareParam(key, argtype, acc) ==
  IF Has(acc.datatypes, key)
    THEN [acc EXCEPT !.prevkeys = Put(@, key, TRUE),
                     !.err = IF acc.datatypes[key] # argtype
                               THEN Err("redefine", key) ELSE @]
    ELSE [acc EXCEPT !.prevkeys = Put(@, key, TRUE),
                     !.datatypes = Put(@, key, argtype),
                     !.local = Put(@, key, TypeDummyValue(argtype))]

\* lines 57-70: ct and cv are param.Value's EvalType and EvalValue against
\* m.constants
ConstrainParam(key, argtype, ct, cv, acc) ==
  IF ct.err # NoErr
    THEN [acc EXCEPT !.err = Wrap("cannot_determine_type", key, ct.err)]
  ELSE IF ct.typ # argtype THEN [acc EXCEPT !.err = Err("type_mismatch", key)]
  ELSE IF cv.err # NoErr
    THEN [acc EXCEPT !.err = Wrap("cannot_evaluate", key, cv.err)]
  ELSE DeclareParam(key, argtype, [acc EXCEPT !.value = Put(@, key, cv.val)])

\* lines 53-79, for one parameter
EvalParam(param, outputs, constants, acc) ==
  IF ~Has(outputs, param.key)
    THEN [acc EXCEPT !.err = Err("unspecified_event_data", param.key)]
  ELSE IF param.value = NilValue
    THEN DeclareParam(param.key, outputs[param.key], acc)
  ELSE ConstrainParam(param.key, outputs[param.key],
                      EvalType(param.value, constants),
                      EvalValue(param.value, constants), acc)

RECURSIVE EvalParams(_, _, _, _, _)
EvalParamsStep(params, i, outputs, constants, acc) ==
  IF acc.err # NoErr THEN acc
  ELSE EvalParams(params, i + 1, outputs, constants, acc)

EvalParams(params, i, outputs, constants, acc) ==
  IF i > Len(params) THEN acc
  ELSE EvalParamsStep(params, i, outputs, constants,
                      EvalParam(params[i], outputs, constants, acc))

\* mutant: no name is dropped
UnmentionedNone(prevkeys) == {}

\* lines 81-88: the names of prevkeys no parameter of this condition mentioned
Unmentioned(prevkeys) == {n \in DOMAIN prevkeys : ~prevkeys[n]}

DropAll(m, names) == [j \in DOMAIN m \ names |-> m[j]]

\* lines 43-51
StartCond(out) ==
  [err |-> NoErr, value |-> EmptyMap,
   prevkeys |-> [n \in DOMAIN out.datatypes |-> FALSE],
   datatypes |-> out.datatypes, local |-> out.local]

\* mutant: the names a condition leaves out stay in the trigger's datatypes
FinishCondKeepTypes(name, out, acc) ==
  IF acc.err # NoErr THEN [out EXCEPT !.err = acc.err]
  ELSE [out EXCEPT
          !.datatypes = acc.datatypes,
          !.local = DropAll(acc.local, Unmentioned(acc.prevkeys)),
          !.cond = Append(@, [TriggerName |-> name, Value |-> acc.value])]

\* lines 81-89
FinishCond(name, out, acc) ==
  IF acc.err # NoErr THEN [out EXCEPT !.err = acc.err]
  ELSE [out EXCEPT
          !.datatypes = DropAll(acc.datatypes, Unmentioned(acc.prevkeys)),
          !.local = DropAll(acc.local, Unmentioned(acc.prevkeys)),
          !.cond = Append(@, [TriggerName |-> name, Value |-> acc.value])]

\* lines 38-89, for one condition
EvalCond(c, constants, reg, out) ==
  IF ~Has(reg.Triggers, c.name)
    THEN [out EXCEPT !.err = Err("unspecified_trigger", c.name)]
  ELSE FinishCond(c.name, out,
         EvalParams(c.params, 1, reg.Triggers[c.name].Outputs, constants,
                    StartCond(out)))

RECURSIVE EvalConds(_, _, _, _, _)
EvalCondsStep(conds, i, constants, reg, out) ==
  IF out.err # NoErr THEN out ELSE EvalConds(conds, i + 1, constants, reg, out)

EvalConds(conds, i, constants, reg, out) ==
  IF i > Len(conds) THEN out
  ELSE EvalCondsStep(conds, i, constants, reg, EvalCond(conds[i], constants, reg, out))

\* the CompiledTrigger
CompiledTrigger(cond, datatypes, actions) ==
  [cond |-> cond, datatypes |-> datatypes, actions |-> actions]

\* lines 92-98: [err, trg]
evalTriggerActions(out, acts) ==
  [err |-> acts.err, trg |-> CompiledTrigger(out.cond, out.datatypes, acts.actions)]

evalTriggerConds(trg, reg, out) ==
  IF out.err # NoErr
    THEN [err |-> out.err, trg |-> CompiledTrigger(out.cond, out.datatypes, <<>>)]
  ELSE evalTriggerActions(out, CompileStatements(trg.actions, 1, out.local, reg, <<>>))

evalTrigger(trg, m, reg) ==
  evalTriggerConds(trg, reg,
    EvalConds(trg.cond, 1, m.constants, reg,
              [err |-> NoErr, cond |-> <<>>, datatypes |-> EmptyMap,
               local |-> m.constants]))

(***************************************************************************)
(* ast.go: State.EvalToplevel, SetStmt.EvalToplevel;                       *)
(* statemachine.go: BuildMachine                                           *)
(***************************************************************************)
\* State.EvalToplevel lines 109-115: [err, triggers]
RECURSIVE CompileTriggers(_, _, _, _, _)
CompileTriggersStep(triggers, i, m, reg, done, r) ==
  IF r.err # NoErr THEN [err |-> r.err, triggers |-> done]
  ELSE CompileTriggers(triggers, i + 1, m, reg, Append(done, r.trg))

CompileTriggers(triggers, i, m, reg, done) ==
  IF i > Len(triggers) THEN [err |-> NoErr, triggers |-> done]
  ELSE CompileTriggersStep(triggers, i, m, reg, done, evalTrigger(triggers[i], m, reg))

CompiledState(init, triggers) == [Init |-> init, Triggers |-> triggers]

\* lines 116-120
RecordState(name, m, init, trgs) ==
  IF trgs.err # NoErr THEN [err |-> trgs.err, m |-> m]
  ELSE [err |-> NoErr,
        m |-> [m EXCEPT
                 !.states = Put(@, name, CompiledState(init.actions, trgs.triggers)),
                 !.firstState = IF @ = "" THEN name ELSE @]]

StateTriggers(st, m, reg, init) ==
  IF init.err # NoErr THEN [err |-> init.err, m |-> m]
  ELSE RecordState(st.name, m, init, CompileTriggers(st.triggers, 1, m, reg, <<>>))

\* [err, m]
StateEvalToplevel(st, m, reg) ==
  StateTriggers(st, m, reg, CompileStatements(st.init, 1, m.constants, reg, <<>>))

SetStmtEvalToplevel(ss, m, reg) ==
  [err |-> NoErr, m |-> [m EXCEPT !.constants = Put(@, ss.name, ss.value)]]

EvalToplevel(entry, m, reg) ==
  IF entry.e = "state" THEN StateEvalToplevel(entry, m, reg)
  ELSE SetStmtEvalToplevel(entry, m, reg)

\* BuildMachine lines 87-91
RECURSIVE BuildEntries(_, _, _, _)
BuildEntriesStep(entries, i, reg, r) ==
  IF r.err # NoErr THEN r ELSE BuildEntries(entries, i + 1, r.m, reg)

BuildEntries(entries, i, m, reg) ==
  IF i > Len(entries) THEN [err |-> NoErr, m |-> m]
  ELSE BuildEntriesStep(entries, i, reg, EvalToplevel(entries[i], m, reg))

\* the nil *CompiledMachine returned beside an error
NoMachine == [constants |-> EmptyMap, firstState |-> "", states |-> EmptyMap]

\* BuildMachine lines 81-86
NewMachine(constants) ==
  [constants |-> [n \in DOMAIN constants |-> ConstantValue(constants[n])],
   firstState |-> "", states |-> EmptyMap]

\* BuildMachine lines 88-95
BuildResult(r) ==
  IF r.err # NoErr THEN [err |-> r.err, m |-> NoMachine]
  ELSE IF DOMAIN r.m.states = {} THEN [err |-> Err("empty_machine", ""), m |-> NoMachine]
  ELSE r

\* mutant: the assignments of the file are processed before its states
BuildMachineSetsFirst(file, reg, constants) ==
  BuildResult(BuildEntries(SelectSeq(file, LAMBDA en : en.e = "set")
                             \o SelectSeq(file, LAMBDA en : en.e = "state"),
                           1, NewMachine(constants), reg))

\* [err, m]
BuildMachine(file, reg, constants) ==
  BuildResult(BuildEntries(file, 1, NewMachine(constants), reg))

(***************************************************************************)
(* The host: a registry, the initial constants, the sources it builds and  *)
(* the events it emits.                                                    *)
(***************************************************************************)
Reg ==
  [Triggers |->
     [A |-> [Name |-> "A", Outputs |-> [event |-> ValueInt, x |-> ValueInt]],
      B |-> [Name |-> "B",
             Outputs |-> [event |-> ValueInt, f |-> ValueFloat, k |-> ValueConstant]],
      S |-> [Name |-> "S", Outputs |-> [x |-> ValueString]]],
   Actions |->
     [nop |-> [Name |-> "nop", Inputs |-> EmptyMap],
      foo |-> [Name |-> "foo", Inputs |-> [n |-> ValueInt]],
      bar |-> [Name |-> "bar", Inputs |-> [s |-> ValueString]]]]

InitialConstants == [dev |-> HV("Device", "d0")]

\* shorthands for writing sources
Par(key) == Arg(key, NilValue)
Nop == Call("nop", <<>>)
On(name, params) == <<TriggerCond(name, params)>>

\* state a { on A(event=1) -> move b; }; state b { on B(event=0) -> move a; };
SrcScenario ==
  << State("a", <<>>, <<Trigger(On("A", <<Arg("event", IntValue("1"))>>), <<MoveStmt("b")>>)>>),
     State("b", <<>>, <<Trigger(On("B", <<Arg("event", IntValue("0"))>>), <<MoveStmt("a")>>)>>) >>

\* press = 1;
\* state a { nop;
\*   on A(event=press, x)               -> foo(n=x), move zz, nop;
\*   on A(event=press), B(event=press)  -> bar(s="t"), move b;
\*   on B(event, f, k)                  -> nop, move a;
\*   on A                               -> move b; };
\* state b { foo(n=press); on A(x) -> foo(n=x); on B -> move a; };
SrcDispatch ==
  << SetStmt("press", IntValue("1")),
     State("a", <<Nop>>,
       << Trigger(On("A", <<Arg("event", ReferenceValue("press")), Par("x")>>),
                  <<Call("foo", <<Arg("n", ReferenceValue("x"))>>), MoveStmt("zz"), Nop>>),
          Trigger(<<TriggerCond("A", <<Arg("event", ReferenceValue("press"))>>),
                    TriggerCond("B", <<Arg("event", ReferenceValue("press"))>>)>>,
                  <<Call("bar", <<Arg("s", StringValue("t"))>>), MoveStmt("b")>>),
          Trigger(On("B", <<Par("event"), Par("f"), Par("k")>>), <<Nop, MoveStmt("a")>>),
          Trigger(On("A", <<>>), <<MoveStmt("b")>>) >>),
     State("b", <<Call("foo", <<Arg("n", ReferenceValue("press"))>>)>>,
       << Trigger(On("A", <<Par("x")>>), <<Call("foo", <<Arg("n", ReferenceValue("x"))>>)>>),
          Trigger(On("B", <<>>), <<MoveStmt("a")>>) >>) >>

\* x = "c";
\* state a { nop, move b; on A -> nop; };
\* state b { bar(s=x);
\*   on A(x)       -> foo(n=x), move c, foo(n=x);
\*   on B(event=0) -> move d, nop;
\*   on B(event=1) -> move c, move b;
\*   on B          -> nop, move zz, nop; };
\* state c { bar(s=x), nop; on A(x) -> foo(n=x); on A -> move b; on B -> move a; };
\* state d { nop, move zz, nop; on A -> move b; };
SrcMove ==
  << SetStmt("x", StringValue("c")),
     State("a", <<Nop, MoveStmt("b")>>, <<Trigger(On("A", <<>>), <<Nop>>)>>),
     State("b", <<Call("bar", <<Arg("s", ReferenceValue("x"))>>)>>,
       << Trigger(On("A", <<Par("x")>>),
                  <<Call("foo", <<Arg("n", ReferenceValue("x"))>>), MoveStmt("c"),
                    Call("foo", <<Arg("n", ReferenceValue("x"))>>)>>),
          Trigger(On("B", <<Arg("event", IntValue("0"))>>), <<MoveStmt("d"), Nop>>),
          Trigger(On("B", <<Arg("event", IntValue("1"))>>), <<MoveStmt("c"), MoveStmt("b")>>),
          Trigger(On("B", <<>>), <<Nop, MoveStmt("zz"), Nop>>) >>),
     State("c", <<Call("bar", <<Arg("s", ReferenceValue("x"))>>), Nop>>,
       << Trigger(On("A", <<Par("x")>>), <<Call("foo", <<Arg("n", ReferenceValue("x"))>>)>>),
          Trigger(On("A", <<>>), <<MoveStmt("b")>>),
          Trigger(On("B", <<>>), <<MoveStmt("a")>>) >>),
     State("d", <<Nop, MoveStmt("zz"), Nop>>,
       <<Trigger(On("A", <<>>), <<MoveStmt("b")>>)>>) >>

\* x = v;        (v is defined nowhere)
\* state a { on A(x) -> foo(n=x), move b; on B -> nop; };
\* state b { nop; on A -> nop; };
SrcShadow ==
  << SetStmt("x", ReferenceValue("v")),
     State("a", <<>>,
       << Trigger(On("A", <<Par("x")>>),
                  <<Call("foo", <<Arg("n", ReferenceValue("x"))>>), MoveStmt("b")>>),
          Trigger(On("B", <<>>), <<Nop>>) >>),
     State("b", <<Nop>>, <<Trigger(On("A", <<>>), <<Nop>>)>>) >>

\* state a { nop; on A -> move b; on B -> nop; };
\* state b { nop, move c; on A -> nop; };
\* state c { move b; on A -> nop; };
SrcCycle ==
  << State("a", <<Nop>>,
       <<Trigger(On("A", <<>>), <<MoveStmt("b")>>), Trigger(On("B", <<>>), <<Nop>>)>>),
     State("b", <<Nop, MoveStmt("c")>>, <<Trigger(On("A", <<>>), <<Nop>>)>>),
     State("c", <<MoveStmt("b")>>, <<Trigger(On("A", <<>>), <<Nop>>)>>) >>

\* q = 1;   (no state)
SrcEmpty == << SetStmt("q", IntValue("1")) >>

\* Action calls to type-check: one or two arguments, each a name the action
\* declares or not, with a literal or a reference of each type.
ArgKeys == {"n", "s", "zz"}

ArgValues == {IntValue("1"), StringValue("t"), ReferenceValue("x"), ReferenceValue("dev"), ReferenceValue("undef")}

ArgLists ==
  {<<>>} \cup {<<Arg(key, v)>> : key \in ArgKeys, v \in ArgValues}

ArgLists2 ==
  {<<Arg("n", IntValue("1")), Arg(key, v)>> : key \in ArgKeys, v \in ArgValues}

TestCalls ==
  {Call("foo", args) : args \in ArgLists \cup ArgLists2}
    \cup {Call("bar", args) : args \in ArgLists}
    \cup {Call("baz", <<>>)}

\* state a { <call>; on A(x) -> move a; };
SrcInitCall(c) ==
  << State("a", <<c>>, <<Trigger(On("A", <<Par("x")>>), <<MoveStmt("a")>>)>>) >>

\* state a { nop; on A(x) -> <call>, move a; };
SrcTriggerCall(c) ==
  << State("a", <<Nop>>, <<Trigger(On("A", <<Par("x")>>), <<c, MoveStmt("a")>>)>>) >>

\* Condition lists to compile: one to three conditions that declare, omit
\* and declare again the names event and x, x with the integer type of A or
\* the string type of S.
CondPool ==
  {TriggerCond("A", <<Par("event"), Par("x")>>),
   TriggerCond("A", <<Par("x")>>),
   TriggerCond("B", <<Par("event")>>),
   TriggerCond("S", <<Par("x")>>),
   TriggerCond("A", <<Arg("x", IntValue("1"))>>),
   TriggerCond("S", <<Arg("x", StringValue("s"))>>)}

CondLists ==
  {<<c>> : c \in CondPool}
    \cup {<<c1, c2>> : c1 \in CondPool, c2 \in CondPool}
    \cup {<<c1, TriggerCond("B", <<Par("event")>>), c2>> :
            c1 \in {c \in CondPool : c.params[1].value = NilValue},
            c2 \in {c \in CondPool : c.params[1].value = NilValue}}

CondActions ==
  {Nop, Call("foo", <<Arg("n", ReferenceValue("event"))>>),
   Call("foo", <<Arg("n", ReferenceValue("x"))>>)}

\* state a { nop; on <conds> -> <action>; };
SrcConds(conds, action) ==
  << State("a", <<Nop>>, <<Trigger(conds, <<action>>)>>) >>

\* A state that references the constant c in one place, with `c = 1;` before
\* the state, after it, both or neither:
\*   [c = 1;] state a { <init>; on A(<constraint>) -> <action>; }; [c = 1;]
\* place "init":        state a { foo(n=c); on A -> nop; };
\* place "constraint":  state a { nop; on A(event=c) -> nop; };
\* place "action":      state a { nop; on A -> foo(n=c); };
OrderPlaces == {"init", "constraint", "action"}

FooC == Call("foo", <<Arg("n", ReferenceValue("c"))>>)

OrderState(place) ==
  State("a",
    <<IF place = "init" THEN FooC ELSE Nop>>,
    <<Trigger(On("A", IF place = "constraint"
                        THEN <<Arg("event", ReferenceValue("c"))>> ELSE <<>>),
              <<IF place = "action" THEN FooC ELSE Nop>>)>>)

SetC == <<SetStmt("c", IntValue("1"))>>

SrcOrder(place, before, after) ==
  (IF before THEN SetC ELSE <<>>) \o <<OrderState(place)>> \o (IF after THEN SetC ELSE <<>>)

\* state a { nop; on B(k=dev) -> nop; };   (dev is an initial constant)
SrcInitialConstant ==
  << State("a", <<Nop>>, <<Trigger(On("B", <<Arg("k", ReferenceValue("dev"))>>), <<Nop>>)>>) >>

FooK == Call("foo", <<Arg("n", ReferenceValue("k"))>>)

\* k = c; c = 1; state a { foo(n=k); on A -> nop; };
SrcForward ==
  << SetStmt("k", ReferenceValue("c")), SetStmt("c", IntValue("1")),
     State("a", <<FooK>>, <<Trigger(On("A", <<>>), <<Nop>>)>>) >>

\* c = 1; k = c; c = "s"; state a { foo(n=k); on A -> nop; };
SrcReassign ==
  << SetStmt("c", IntValue("1")), SetStmt("k", ReferenceValue("c")),
     SetStmt("c", StringValue("s")),
     State("a", <<FooK>>, <<Trigger(On("A", <<>>), <<Nop>>)>>) >>

\* state a { nop, move zz; on A -> nop; };
SrcInitFails ==
  << State("a", <<Nop, MoveStmt("zz")>>, <<Trigger(On("A", <<>>), <<Nop>>)>>) >>

Sources ==
  {SrcScenario, SrcDispatch, SrcMove, SrcShadow, SrcCycle, SrcEmpty}
    \cup {SrcInitCall(c) : c \in TestCalls}
    \cup {SrcTriggerCall(c) : c \in TestCalls}
    \cup {SrcConds(conds, action) : conds \in CondLists, action \in CondActions}
    \cup {SrcOrder(place, b, a) : place \in OrderPlaces, b \in BOOLEAN, a \in BOOLEAN}
    \cup {SrcInitialConstant, SrcForward, SrcReassign, SrcInitFails}

\* Emitted events: a trigger name of the registry with a payload over that
\* trigger's field names, each field absent or holding one of a few host
\* values of the declared and of other dynamic types; and an unregistered name.
FieldValues ==
  [event |-> {HV("int64", "0"), HV("int64", "1"), HV("int64", "2"), HV("int", "1")},
   x |-> {HV("int64", "1"), HV("string", "c")},
   f |-> {HV("float64", "1"), HV("int64", "1"), HV("Device", "d0")},
   k |-> {HV("Device", "d0")}]

PayloadsOver(keys) ==
  UNION {[ks -> UNION {FieldValues[j] : j \in ks}] : ks \in SUBSET keys}

Payloads(name) ==
  {p \in PayloadsOver(DOMAIN Reg.Triggers[name].Outputs) :
     \A j \in DOMAIN p : p[j] \in FieldValues[j]}

Events ==
  {[name |-> n, payload |-> p] : n \in {"A"}, p \in Payloads("A")}
    \cup {[name |-> n, payload |-> p] : n \in {"B"}, p \in Payloads("B")}
    \cup {[name |-> n, payload |-> p] : n \in {"S"}, p \in Payloads("S")}
    \cup {[name |-> "C", payload |-> EmptyMap]}

Inst == {"i1", "i2"}

(***************************************************************************)
(* lexer.go: the line-buffered, rule-driven lexer.  A byte is a string of  *)
(* one character and a text a sequence of bytes; the sources are ASCII,    *)
(* so a code point is one byte.  The reader is an in-memory byte stream:   *)
(* the only error it gives is io.EOF.  A rule of the list in parser.go is  *)
(* modelled by the length of its match at the start of the text (0 when    *)
(* it does not match; no rule matches the empty string).                   *)
(***************************************************************************)
Take(text, n) == SubSeq(text, 1, n)

Drop(text, n) == SubSeq(text, n + 1, Len(text))

RECURSIVE Str(_)
Str(text) == IF text = <<>> THEN "" ELSE Head(text) \o Str(Tail(text))

Space == {" ", "\t", "\n", "\f", "\r"}

Digits == {"0", "1", "2", "3", "4", "5", "6", "7", "8", "9"}

Letters ==
  {"a", "b", "c", "d", "e", "f", "g", "h", "i", "j", "k", "l", "m",
   "n", "o", "p", "q", "r", "s", "t", "u", "v", "w", "x", "y", "z",
   "A", "B", "C", "D", "E", "F", "G", "H", "I", "J", "K", "L", "M",
   "N", "O", "P", "Q", "R", "S", "T", "U", "V", "W", "X", "Y", "Z"}

WordChars == Letters \cup Digits \cup {"_"}

PunctChars == {"{", "}", "(", ")", ",", ";", "="}

Signs == {"+", "-"}

\* the number of bytes from position `from` on that belong to `class`
SpanAt(text, from, class) ==
  CHOOSE n \in 0..(Len(text) + 1 - from) :
    /\ \A k \in from..(from + n - 1) : text[k] \in class
    /\ from + n > Len(text) \/ text[from + n] \notin class

\* the number of bytes from position `from` on that are not `byte`
SpanNotAt(text, from, byte) ==
  CHOOSE n \in 0..(Len(text) + 1 - from) :
    /\ \A k \in from..(from + n - 1) : text[k] # byte
    /\ from + n > Len(text) \/ text[from + n] = byte

HasPrefix(text, word) == Len(text) >= Len(word) /\ Take(text, Len(word)) = word

\* \b after the first n bytes, the n-th being a word character
Boundary(text, n) == n >= Len(text) \/ text[n + 1] \notin WordChars

WordMatch(text, word) ==
  IF HasPrefix(text, word) /\ Boundary(text, Len(word)) THEN Len(word) ELSE 0

Largest(lengths) == CHOOSE n \in lengths : \A k \in lengths : k <= n

\* ^[\s\t\r\n]+
whitespaceRule(text) == SpanAt(text, 1, Space)

\* ^#[^\n]*
commentRule(text) ==
  IF text # <<>> /\ text[1] = "#" THEN 1 + SpanNotAt(text, 2, "\n") ELSE 0

\* ^->
arrowRule(text) == IF HasPrefix(text, <<"-", ">">>) THEN 2 ELSE 0

\* ^[{}(),;=]
punctRule(text) == IF text # <<>> /\ text[1] \in PunctChars THEN 1 ELSE 0

\* (\\.|[^"\\])*" from position i on: the length of the match, 0 for none
RECURSIVE stringBody(_, _)
stringBody(text, i) ==
  IF i > Len(text) THEN 0
  ELSE IF text[i] = "\"" THEN i
  ELSE IF text[i] = "\\"
    THEN IF i + 1 <= Len(text) /\ text[i + 1] # "\n" THEN stringBody(text, i + 2) ELSE 0
  ELSE stringBody(text, i + 1)

\* ^"(\\.|[^"\\])*"
stringRule(text) == IF text # <<>> /\ text[1] = "\"" THEN stringBody(text, 2) ELSE 0

signLen(text) == IF text # <<>> /\ text[1] \in Signs THEN 1 ELSE 0

\* [0-9]+\.[0-9]* after a sign of s bytes and d digits
floatTail(text, s, d) ==
  IF d >= 1 /\ s + d + 1 <= Len(text) /\ text[s + d + 1] = "."
    THEN s + d + 1 + SpanAt(text, s + d + 2, Digits)
    ELSE 0

\* ^[+-]?[0-9]+\.[0-9]*
floatRule(text) == floatTail(text, signLen(text), SpanAt(text, signLen(text) + 1, Digits))

intTail(s, d) == IF d >= 1 THEN s + d ELSE 0

\* ^[+-]?[0-9]+
intRule(text) == intTail(signLen(text), SpanAt(text, signLen(text) + 1, Digits))

\* ^(true|false)\b
boolRule(text) ==
  Largest({WordMatch(text, <<"t", "r", "u", "e">>),
           WordMatch(text, <<"f", "a", "l", "s", "e">>)})

\* ^(state|on|move)\b
keywordRule(text) ==
  Largest({WordMatch(text, <<"s", "t", "a", "t", "e">>),
           WordMatch(text, <<"o", "n">>),
           WordMatch(text, <<"m", "o", "v", "e">>)})

\* ^[A-Za-z_][A-Za-z0-9_]*
identifierRule(text) ==
  IF text # <<>> /\ text[1] \in Letters \cup {"_"}
    THEN 1 + SpanAt(text, 2, WordChars)
    ELSE 0

\* the rule list: the name of each rule, "" for the rules that skip
RuleNames ==
  <<"", "", "arrow", "punct", "string", "float", "int", "bool", "keyword", "identifier">>

RuleMatch(r, text) ==
  CASE r = 1 -> whitespaceRule(text)
    [] r = 2 -> commentRule(text)
    [] r = 3 -> arrowRule(text)
    [] r = 4 -> punctRule(text)
    [] r = 5 -> stringRule(text)
    [] r = 6 -> floatRule(text)
    [] r = 7 -> intRule(text)
    [] r = 8 -> boolRule(text)
    [] r = 9 -> keywordRule(text)
    [] r = 10 -> identifierRule(text)

\* the first rule of the list that matches, 0 when none does
FirstRule(text) ==
  IF \E r \in DOMAIN RuleNames : RuleMatch(r, text) > 0
    THEN CHOOSE r \in DOMAIN RuleNames :
           /\ RuleMatch(r, text) > 0
           /\ \A q \in 1..(r - 1) : RuleMatch(q, text) = 0
    ELSE 0

\* bufio.Reader.ReadBytes('\n'): the bytes up to and including the first
\* newline, or all the bytes left together with io.EOF
ReadBytes(reader) ==
  IF \E k \in DOMAIN reader : reader[k] = "\n"
    THEN [line |-> Take(reader, 1 + SpanNotAt(reader, 1, "\n")),
          rest |-> Drop(reader, 1 + SpanNotAt(reader, 1, "\n")),
          eof |-> FALSE]
    ELSE [line |-> reader, rest |-> <<>>, eof |-> TRUE]

LexerMove(lx, n) == [lx EXCEPT !.text = Drop(@, n), !.Offset = @ + n]

makeToken(lx, typ, n) ==
  [lx EXCEPT !.Token = typ, !.Length = n, !.Value = Str(Take(lx.text, n))]

\* the loop of readLine: [lx, eof]
RECURSIVE readLineLoop(_, _)
readLineStep(lx, buf, rb) ==
  IF rb.eof THEN [lx |-> [lx EXCEPT !.reader = rb.rest], eof |-> TRUE]
  ELSE IF rb.line[Len(rb.line)] # "\\"
    THEN [lx |-> [lx EXCEPT !.reader = rb.rest, !.text = buf \o rb.line], eof |-> FALSE]
  ELSE readLineLoop([lx EXCEPT !.reader = rb.rest],
                    buf \o Take(rb.line, Len(rb.line) - 1))

readLineLoop(lx, buf) ==
  readLineStep([lx EXCEPT !.linesize = @ + 1], buf, ReadBytes(lx.reader))

readLine(lx) ==
  readLineLoop([lx EXCEPT !.Linenr = @ + lx.linesize, !.Offset = 0, !.linesize = 0], <<>>)

RECURSIVE tokenLoop(_)
tokenLoopRule(lx, r) ==
  IF r = 0 THEN makeToken(lx, "ILLEGAL", 1)
  ELSE IF RuleNames[r] = "" THEN tokenLoop(LexerMove(lx, RuleMatch(r, lx.text)))
  ELSE makeToken(lx, RuleNames[r], RuleMatch(r, lx.text))

tokenLoopRead(rl) ==
  IF rl.eof THEN makeToken(rl.lx, "EOF", 0) ELSE tokenLoopRule(rl.lx, FirstRule(rl.lx.text))

tokenLoop(lx) ==
  IF lx.text = <<>> THEN tokenLoopRead(readLine(lx))
  ELSE tokenLoopRule(lx, FirstRule(lx.text))

LexerNext(lx) == tokenLoop(LexerMove(lx, lx.Length))

NewLexer(reader) ==
  LexerNext([reader |-> reader, text |-> <<>>, linesize |-> 0, Token |-> "",
             Linenr |-> 1, Offset |-> 0, Length |-> 0, Value |-> ""])

NoLexer ==
  [reader |-> <<>>, text |-> <<>>, linesize |-> 0, Token |-> "",
   Linenr |-> 0, Offset |-> 0, Length |-> 0, Value |-> ""]

(***************************************************************************)
(* parser.go: the recursive-descent parser, over the token stream of the   *)
(* lexer.  A token is [Token, Value]; the parser's position is the index   *)
(* of the current token, past the last token the lexer gives EOF.  Every   *)
(* parse function returns [ok, pos, val, err]: the position after what it  *)
(* consumed and its result, or the ParseError that errUnexpected panics    *)
(* with (ParseFile recovers it and returns it as the error).               *)
(***************************************************************************)
Tok(type, value) == [Token |-> type, Value |-> value]

EOFToken == Tok("EOF", "")

At(tokens, pos) == IF pos <= Len(tokens) THEN tokens[pos] ELSE EOFToken

\* the entries of an "expected" list: a token type, or strconv.Quote(val)
TokenType(name) == [quoted |-> FALSE, text |-> name]

Quote(val) == [quoted |-> TRUE, text |-> val]

NoParseError == [Expected |-> <<>>, Type |-> "", Value |-> ""]

Parsed(pos, val) == [ok |-> TRUE, pos |-> pos, val |-> val, err |-> NoParseError]

\* errUnexpected lines 71-82
errUnexpected(tokens, pos, expected) ==
  [ok |-> FALSE, pos |-> pos, val |-> <<>>,
   err |-> [Expected |-> expected, Type |-> At(tokens, pos).Token,
            Value |-> At(tokens, pos).Value]]

\* expect lines 29-36
expect(tokens, pos, name) ==
  IF At(tokens, pos).Token # name THEN errUnexpected(tokens, pos, <<TokenType(name)>>)
  ELSE Parsed(pos + 1, At(tokens, pos).Value)

\* expectValue lines 38-43
expectValue(tokens, pos, val) ==
  IF At(tokens, pos).Value # val THEN errUnexpected(tokens, pos, <<Quote(val)>>)
  ELSE Parsed(pos + 1, val)

\* a step of a parse function after a sub-parse r: its error ends the
\* function (the panic unwinds), else `next` is the function's result
Then(r, next) == IF r.ok THEN next ELSE r

\* ConstValue{v}: hk is the Go type of v
ConstValue(hk, v) == [k |-> "ConstValue", v |-> v, hk |-> hk, t |-> 0]

\* the text of the literals of the sources parsed here, decoded as
\* strings.NewReplacer(...).Replace(raw[1:len(raw)-1]), strconv.ParseInt and
\* strconv.ParseFloat decode them
StringLiterals == ("\"s\"" :> "s") @@ ("\"a\\n\"" :> "a\n")

IntLiterals == ("1" :> "1") @@ ("+1" :> "1") @@ ("01" :> "1") @@ ("-1" :> "-1")

FloatLiterals == ("1.5" :> "1.5") @@ ("1." :> "1")

\* parseValue lines 229-276
parseValue(tokens, pos) ==
  CASE At(tokens, pos).Token = "string" ->
         Parsed(pos + 1, ConstValue("string", StringLiterals[At(tokens, pos).Value]))
    [] At(tokens, pos).Token = "int" ->
         Parsed(pos + 1, ConstValue("int64", IntLiterals[At(tokens, pos).Value]))
    [] At(tokens, pos).Token = "float" ->
         Parsed(pos + 1, ConstValue("float64", FloatLiterals[At(tokens, pos).Value]))
    [] At(tokens, pos).Token = "bool" ->
         Parsed(pos + 1, ConstValue("bool", IF At(tokens, pos).Value = "true"
                                              THEN "true" ELSE "false"))
    [] At(tokens, pos).Token = "identifier" ->
         Parsed(pos + 1, ReferenceValue(At(tokens, pos).Value))
    [] OTHER ->
         errUnexpected(tokens, pos, <<TokenType("string"), TokenType("int"), TokenType("float"),
                                     TokenType("bool"), TokenType("identifier")>>)

\* parseParam lines 211-218: key is the result of expect("identifier")
parseParamValue(key, value) == Then(value, Parsed(value.pos, Arg(key.val, value.val)))

parseParamKey(tokens, key) ==
  IF ~key.ok THEN key
  ELSE IF At(tokens, key.pos).Value = "="
    THEN parseParamValue(key, parseValue(tokens, key.pos + 1))
    ELSE Parsed(key.pos, Arg(key.val, NilValue))

parseParam(tokens, pos) == parseParamKey(tokens, expect(tokens, pos, "identifier"))

\* parseArg lines 220-227
parseArgKey(tokens, key) ==
  IF ~key.ok THEN key
  ELSE IF At(tokens, key.pos).Value = "="
    THEN parseParamValue(key, parseValue(tokens, key.pos + 1))
    ELSE Parsed(key.pos, Arg(key.val, ReferenceValue(key.val)))

parseArg(tokens, pos) == parseArgKey(tokens, expect(tokens, pos, "identifier"))

\* parseTriggerCond lines 148-154: the loop over the parameters
RECURSIVE parseParams(_, _, _)
parseParamsStep(tokens, params, r) ==
  IF ~r.ok THEN r
  ELSE IF At(tokens, r.pos).Value # "," THEN Parsed(r.pos, Append(params, r.val))
  ELSE parseParams(tokens, r.pos + 1, Append(params, r.val))

parseParams(tokens, pos, params) ==
  IF At(tokens, pos).Value = ")" THEN Parsed(pos, params)
  ELSE parseParamsStep(tokens, params, parseParam(tokens, pos))

\* parseTriggerCond lines 143-158
parseTriggerCondClose(name, params, close) ==
  Then(close, Parsed(close.pos, TriggerCond(name.val, params.val)))

parseTriggerCondParams(tokens, name, params) ==
  Then(params, parseTriggerCondClose(name, params, expectValue(tokens, params.pos, ")")))

parseTriggerCondName(tokens, name) ==
  IF ~name.ok THEN name
  ELSE IF At(tokens, name.pos).Value = "("
    THEN parseTriggerCondParams(tokens, name, parseParams(tokens, name.pos + 1, <<>>))
    ELSE Parsed(name.pos, TriggerCond(name.val, <<>>))

parseTriggerCond(tokens, pos) ==
  parseTriggerCondName(tokens, expect(tokens, pos, "identifier"))

\* Call{Name, Args}: Args is a map from argument name to value
ParsedCall(name, args) == [s |-> "call", name |-> name, args |-> args]

\* parseCall lines 198-205: the loop over the arguments, args[key] = value
RECURSIVE parseArgs(_, _, _)
parseArgsStep(tokens, args, r) ==
  IF ~r.ok THEN r
  ELSE IF At(tokens, r.pos).Value # "," THEN Parsed(r.pos, Put(args, r.val.key, r.val.value))
  ELSE parseArgs(tokens, r.pos + 1, Put(args, r.val.key, r.val.value))

parseArgs(tokens, pos, args) ==
  IF At(tokens, pos).Value = ")" THEN Parsed(pos, args)
  ELSE parseArgsStep(tokens, args, parseArg(tokens, pos))

\* parseCall lines 193-209
parseCallClose(name, args, close) ==
  Then(close, Parsed(close.pos, ParsedCall(name.val, args.val)))

parseCallArgs(tokens, name, args) ==
  Then(args, parseCallClose(name, args, expectValue(tokens, args.pos, ")")))

parseCallName(tokens, name) ==
  IF ~name.ok THEN name
  ELSE IF At(tokens, name.pos).Value = "("
    THEN parseCallArgs(tokens, name, parseArgs(tokens, name.pos + 1, EmptyMap))
    ELSE Parsed(name.pos, ParsedCall(name.val, EmptyMap))

parseCall(tokens, pos) == parseCallName(tokens, expect(tokens, pos, "identifier"))

\* parseAction lines 178-191
parseMoveDest(dst) == Then(dst, Parsed(dst.pos, MoveStmt(dst.val)))

parseAction(tokens, pos) ==
  IF At(tokens, pos).Value = "move"
    THEN parseMoveDest(expect(tokens, pos + 1, "identifier"))
  ELSE IF At(tokens, pos).Token = "identifier" THEN parseCall(tokens, pos)
  ELSE errUnexpected(tokens, pos, <<Quote("move"), Quote("set"), TokenType("identifier")>>)

\* parseTrigger lines 164-166: the loop over the further conditions
RECURSIVE parseConds(_, _, _)
parseCondsStep(tokens, conds, r) ==
  Then(r, parseConds(tokens, r.pos, Append(conds, r.val)))

parseConds(tokens, pos, conds) ==
  IF At(tokens, pos).Value = ","
    THEN parseCondsStep(tokens, conds, parseTriggerCond(tokens, pos))
    ELSE Parsed(pos, conds)

\* parseTrigger lines 168-173 and parseState lines 128-132: action (',' action)*
RECURSIVE parseActions(_, _, _)
parseActionsStep(tokens, actions, r) ==
  IF ~r.ok THEN r
  ELSE IF At(tokens, r.pos).Value = ","
    THEN parseActions(tokens, r.pos + 1, Append(actions, r.val))
    ELSE Parsed(r.pos, Append(actions, r.val))

parseActions(tokens, pos, actions) ==
  parseActionsStep(tokens, actions, parseAction(tokens, pos))

\* parseTrigger lines 160-176
parseTriggerEnd(conds, actions, semi) ==
  Then(semi, Parsed(semi.pos, Trigger(conds.val, actions.val)))

parseTriggerActions(tokens, conds, actions) ==
  Then(actions, parseTriggerEnd(conds, actions, expectValue(tokens, actions.pos, ";")))

parseTriggerArrow(tokens, conds, arrow) ==
  Then(arrow, parseTriggerActions(tokens, conds, parseActions(tokens, arrow.pos, <<>>)))

parseTriggerConds(tokens, conds) ==
  Then(conds, parseTriggerArrow(tokens, conds, expectValue(tokens, conds.pos, "->")))

parseTriggerFirst(tokens, first) ==
  Then(first, parseTriggerConds(tokens, parseConds(tokens, first.pos, <<first.val>>)))

parseTriggerOn(tokens, on) ==
  Then(on, parseTriggerFirst(tokens, parseTriggerCond(tokens, on.pos)))

parseTrigger(tokens, pos) == parseTriggerOn(tokens, expectValue(tokens, pos, "on"))

\* no parse has been made
NotParsed == [ok |-> FALSE, pos |-> 0, val |-> <<>>, err |-> NoParseError]

(***************************************************************************)
(* The state machine of the host program                                   *)
(*   ast      the parsed source handed to BuildMachine                     *)
(*   built    BuildMachine's error result ("pending" before the call)      *)
(*   cm       the CompiledMachine it returned                              *)
(*   current  per instance, the name of m.current (NoState: not created)   *)
(*   last     the last call: operation, instance, event, the instance's    *)
(*            state before it, the trigger Emit selected (0: none), the    *)
(*            events of the call and the error returned                    *)
(*   toks     the token stream handed to the parser                        *)
(*   parsed   the result of the parse (NotParsed before it)                *)
(***************************************************************************)
NoCall ==
  [op |-> "none", inst |-> "", name |-> "", payload |-> EmptyMap, prev |-> NoState,
   sel |-> 0, trace |-> <<>>, ret |-> NoErr]

Init ==
  /\ ast \in Sources
  /\ built = Err("pending", "")
  /\ cm = NoMachine
  /\ current = [i \in Inst |-> NoState]
  /\ last = NoCall
  /\ toks = <<>>
  /\ parsed = NotParsed
  /\ source = <<>>
  /\ lex = NoLexer
  /\ produced = <<>>

Alive == last.ret # Fatal /\ built # Fatal

Build ==
  /\ built = Err("pending", "")
  /\ \E r \in {BuildMachine(ast, Reg, InitialConstants)} :
       /\ built' = r.err
       /\ cm' = r.m
  /\ UNCHANGED <<ast, current, last>>
  /\ UNCHANGED parserVars
  /\ UNCHANGED lexerVars

New(i) ==
  /\ built = NoErr
  /\ Alive
  /\ current[i] = NoState
  /\ \E rs \in NewRuns(cm) :
       /\ current' = [current EXCEPT ![i] = rs.cur]
       /\ last' = [op |-> "New", inst |-> i, name |-> "", payload |-> EmptyMap,
                   prev |-> NoState, sel |-> 0, trace |-> rs.trace, ret |-> rs.err]
       /\ cm' = [cm EXCEPT !.constants = Overlay(@, rs.written)]
  /\ UNCHANGED <<ast, built>>
  /\ UNCHANGED parserVars
  /\ UNCHANGED lexerVars

Emit(i, name, inputs) ==
  /\ built = NoErr
  /\ Alive
  /\ current[i] # NoState
  /\ \E rs \in EmitRuns(cm, current[i], name, inputs) :
       /\ current' = [current EXCEPT ![i] = rs.cur]
       /\ last' = [op |-> "Emit", inst |-> i, name |-> name, payload |-> inputs,
                   prev |-> current[i],
                   sel |-> SelectTrigger(cm.states[current[i]].Triggers, 1, name, inputs),
                   trace |-> rs.trace, ret |-> rs.err]
       /\ cm' = [cm EXCEPT !.constants = Overlay(@, rs.written)]
  /\ UNCHANGED <<ast, built>>
  /\ UNCHANGED parserVars
  /\ UNCHANGED lexerVars

Next ==
  \/ Build
  \/ \E i \in Inst : New(i)
  \/ \E i \in Inst, e \in Events : Emit(i, e.name, e.payload)

Spec == Init /\ [][Next]_vars

(***************************************************************************)
(* The parser applied to token streams: triggers written with one to three *)
(* conditions and one or two actions, and the same with the final `;`      *)
(* missing.  A form is the tokens of a phrase with the tree it denotes.    *)
(***************************************************************************)
Id(name) == Tok("identifier", name)

Punct(c) == Tok("punct", c)

Keyword(w) == Tok("keyword", w)

Form(tokens, tree) == [tokens |-> tokens, tree |-> tree]

\* A    A()    B(x)    B(x=1, y)
CondForms ==
  {Form(<<Id("A")>>, TriggerCond("A", <<>>)),
   Form(<<Id("A"), Punct("("), Punct(")")>>, TriggerCond("A", <<>>)),
   Form(<<Id("B"), Punct("("), Id("x"), Punct(")")>>,
        TriggerCond("B", <<Arg("x", NilValue)>>)),
   Form(<<Id("B"), Punct("("), Id("x"), Punct("="), Tok("int", "1"), Punct(","),
          Id("y"), Punct(")")>>,
        TriggerCond("B", <<Arg("x", ConstValue("int64", "1")), Arg("y", NilValue)>>))}

\* nop    move b    foo(x, n="s")
ActionForms ==
  {Form(<<Id("nop")>>, ParsedCall("nop", EmptyMap)),
   Form(<<Keyword("move"), Id("b")>>, MoveStmt("b")),
   Form(<<Id("foo"), Punct("("), Id("x"), Punct(","), Id("n"), Punct("="),
          Tok("string", "\"s\""), Punct(")")>>,
        ParsedCall("foo", [x |-> ReferenceValue("x"), n |-> ConstValue("string", "s")]))}

MaxConds == 3

MaxActions == 2

FormLists(forms, n) == UNION {[1..k -> forms] : k \in 1..n}

\* the tokens of the forms, separated by commas
RECURSIVE CommaSeparated(_)
CommaSeparated(forms) ==
  IF Len(forms) = 1 THEN forms[1].tokens
  ELSE forms[1].tokens \o <<Punct(",")>> \o CommaSeparated(Tail(forms))

Trees(forms) == [j \in DOMAIN forms |-> forms[j].tree]

\* on <conds> -> <actions> ;
TriggerForm(conds, actions) ==
  Form(<<Keyword("on")>> \o CommaSeparated(conds) \o <<Tok("arrow", "->")>>
         \o CommaSeparated(actions) \o <<Punct(";")>>,
       Trigger(Trees(conds), Trees(actions)))

TriggerForms ==
  {TriggerForm(conds, actions) :
     conds \in FormLists(CondForms, MaxConds), actions \in FormLists(ActionForms, MaxActions)}

ParserInputs ==
  {f.tokens : f \in TriggerForms}
    \cup {SubSeq(f.tokens, 1, Len(f.tokens) - 1) : f \in TriggerForms}

InitParser ==
  /\ toks \in ParserInputs
  /\ parsed = NotParsed
  /\ source = <<>>
  /\ lex = NoLexer
  /\ produced = <<>>
  /\ ast = <<>>
  /\ built = Err("pending", "")
  /\ cm = NoMachine
  /\ current = [i \in Inst |-> NoState]
  /\ last = NoCall

\* the parser positioned at the first token parses one trigger
ParseTrigger ==
  /\ parsed = NotParsed
  /\ parsed' = parseTrigger(toks, 1)
  /\ UNCHANGED toks
  /\ UNCHANGED machineVars
  /\ UNCHANGED lexerVars

NextParser == ParseTrigger

SpecParser == InitParser /\ [][NextParser]_vars

(***************************************************************************)
(* The lexer applied to sources: every text of at most MaxLen bytes over   *)
(* an identifier character, a punctuation mark, a blank, the comment       *)
(* mark, the backslash and the newline.                                    *)
(*   source    the bytes given to NewLexer                                 *)
(*   lex       the Lexer (NoLexer before NewLexer)                         *)
(*   produced  the tokens the lexer has been positioned on, in order       *)
(***************************************************************************)
Alphabet == {"a", ";", " ", "#", "\\", "\n"}

MaxLen == 5

\* calls of Next once the lexer is at EOF (ParseFile makes one, in expect("EOF"))
MaxEOF == 2

RECURSIVE Texts(_)
Texts(n) ==
  IF n = 0 THEN {<<>>}
  ELSE Texts(n - 1) \cup {Append(t, c) : t \in {u \in Texts(n - 1) : Len(u) = n - 1}, c \in Alphabet}

LexerInputs == Texts(MaxLen)

Current(lx) == Tok(lx.Token, lx.Value)

EOFs(tokens) == Cardinality({k \in DOMAIN tokens : tokens[k].Token = "EOF"})

InitLexer ==
  /\ source \in LexerInputs
  /\ lex = NoLexer
  /\ produced = <<>>
  /\ toks = <<>>
  /\ parsed = NotParsed
  /\ ast = <<>>
  /\ built = Err("pending", "")
  /\ cm = NoMachine
  /\ current = [i \in Inst |-> NoState]
  /\ last = NoCall

\* NewLexer(reader, rules): the lexer is returned positioned on the first token
OpenLexer ==
  /\ lex = NoLexer
  /\ lex' = NewLexer(source)
  /\ produced' = <<Current(lex')>>
  /\ UNCHANGED source
  /\ UNCHANGED machineVars
  /\ UNCHANGED parserVars

\* Lexer.Next()
NextToken ==
  /\ lex # NoLexer
  /\ EOFs(produced) < MaxEOF
  /\ lex' = LexerNext(lex)
  /\ produced' = Append(produced, Current(lex'))
  /\ UNCHANGED source
  /\ UNCHANGED machineVars
  /\ UNCHANGED parserVars

NextLexer == OpenLexer \/ NextToken

SpecLexer == InitLexer /\ [][NextLexer]_vars

(***************************************************************************)
(* The machine built from sources about triggers: a constant named like an *)
(* event-data name that a condition declares and a later one leaves out,   *)
(* the condition lists with an action that references nothing, and the     *)
(* scenario, dispatch and init-cycle sources.                              *)
(***************************************************************************)
\* x = <value>; state a { nop; on <conds> -> <action>; };
SrcConstantInAction(value, conds, action) ==
  << SetStmt("x", value), State("a", <<Nop>>, <<Trigger(conds, <<action>>)>>) >>

\* condition lists whose last condition does not declare x
DroppedConds ==
  {<<TriggerCond("A", <<Par("x")>>), TriggerCond("B", <<Par("event")>>)>>,
   <<TriggerCond("S", <<Par("x")>>), TriggerCond("B", <<Par("event")>>)>>,
   <<TriggerCond("A", <<Par("event"), Par("x")>>), TriggerCond("A", <<Par("event")>>)>>,
   <<TriggerCond("B", <<Par("event")>>), TriggerCond("A", <<>>)>>,
   <<TriggerCond("B", <<Par("event")>>)>>}

XValues == {IntValue("1"), StringValue("s")}

XActions ==
  {Call("foo", <<Arg("n", ReferenceValue("x"))>>), Call("bar", <<Arg("s", ReferenceValue("x"))>>)}

TriggerSources ==
  {SrcConstantInAction(v, conds, action) :
     v \in XValues, conds \in DroppedConds, action \in XActions}
    \cup {SrcConds(conds, Nop) : conds \in CondLists}
    \cup {SrcScenario, SrcDispatch, SrcCycle}

InitTriggers ==
  /\ ast \in TriggerSources
  /\ built = Err("pending", "")
  /\ cm = NoMachine
  /\ current = [i \in Inst |-> NoState]
  /\ last = NoCall
  /\ toks = <<>>
  /\ parsed = NotParsed
  /\ source = <<>>
  /\ lex = NoLexer
  /\ produced = <<>>

SpecTriggers == InitTriggers /\ [][Next]_vars

(***************************************************************************)
(* Properties.  What "matches" means is stated here from the compiled      *)
(* conditions alone, without the loops of Test.                            *)
(***************************************************************************)
CondMatches(cond, name, payload) ==
  /\ cond.TriggerName = name
  /\ \A key \in DOMAIN cond.Value :
       key \in DOMAIN payload /\ payload[key] = cond.Value[key]

TrgMatches(trg, name, payload) ==
  \E c \in DOMAIN trg.cond : CondMatches(trg.cond[c], name, payload)

\* the triggers the last Emit was dispatched against, and those that match
LastTriggers == cm.states[last.prev].Triggers

LastMatching ==
  {j \in DOMAIN LastTriggers : TrgMatches(LastTriggers[j], last.name, last.payload)}

Returned == last.ret # Fatal

\* the events of the last call that are actions of a trigger's action list
TriggerEvents == {j \in DOMAIN last.trace : last.trace[j].from = "trigger"}

\* C1: Emit tests the triggers of the current state in declaration order and
\* runs the actions of the first one that matches only: every action of a
\* trigger's action list that ran during the call belongs to the matching
\* trigger of least index of the state the instance was in, whether or not
\* later triggers match too and whether binding or running it failed.
C1_FirstMatchingTriggerOnly ==
  last.op = "Emit" =>
    /\ last.sel = (IF LastMatching = {} THEN 0
                   ELSE CHOOSE j \in LastMatching : \A j2 \in LastMatching : j <= j2)
    /\ \A j \in TriggerEvents :
         /\ last.trace[j].state = last.prev
         /\ last.trace[j].trg = last.sel
         /\ last.sel # 0

\* two triggers match, the first ran an action and then failed
C1_Witness ==
  /\ last.op = "Emit"
  /\ Cardinality(LastMatching) >= 2
  /\ last.ret.kind = "unknown_state"
  /\ \E j \in TriggerEvents : last.trace[j].ev = "call"

\* C2: a condition matches exactly when the names are equal and every stored
\* constraint key is in the payload with an equal value (other payload keys
\* are ignored); a trigger matches when one of its conditions does.  In the
\* source `state a { on A(event=1) -> move b; }; ...`, in state a, Emit of A
\* with event=1 makes b current and Emit of A with event=2 returns
\* no-trigger-matched and leaves a current.
C2_ConditionMatches ==
  last.op = "Emit" =>
    /\ \A j \in DOMAIN LastTriggers :
         /\ TriggerTest(LastTriggers[j], last.name, last.payload)
              <=> TrgMatches(LastTriggers[j], last.name, last.payload)
         /\ \A c \in DOMAIN LastTriggers[j].cond :
              ConditionTest(LastTriggers[j].cond[c], last.name, last.payload)
                <=> CondMatches(LastTriggers[j].cond[c], last.name, last.payload)
    /\ (last.ret = EOF) <=> (LastMatching = {})
    /\ (ast = SrcScenario /\ last.prev = "a" /\ last.name = "A"
          /\ Has(last.payload, "event")) =>
         /\ last.payload["event"] = HV("int64", "1") =>
              last.ret = NoErr /\ current[last.inst] = "b"
         /\ last.payload["event"] = HV("int64", "2") =>
              last.ret = EOF /\ current[last.inst] = "a"

\* the scenario's transition, taken with a payload that also carries a key
\* the condition does not constrain
C2_Witness ==
  /\ ast = SrcScenario
  /\ last.op = "Emit"
  /\ last.prev = "a"
  /\ current[last.inst] = "b"
  /\ Has(last.payload, "x")

\* C5: when no trigger of the current state matches, Emit runs no action,
\* leaves the current state unchanged and returns the no-trigger-matched
\* outcome, which no call that selected a trigger returns (not on success
\* and not on a failure).
C5_NoTriggerMatched ==
  last.op = "Emit" =>
    /\ LastMatching = {} =>
         last.ret = EOF /\ last.trace = <<>> /\ current[last.inst] = last.prev
    /\ LastMatching # {} => last.ret # EOF

\* no trigger matched although one of the state's triggers has the event's
\* name
C5_Witness ==
  /\ last.op = "Emit"
  /\ last.ret = EOF
  /\ \E j \in DOMAIN LastTriggers : \E c \in DOMAIN LastTriggers[j].cond :
       LastTriggers[j].cond[c].TriggerName = last.name

(***************************************************************************)
(* Reading the trace of the last call                                      *)
(***************************************************************************)
Trace == last.trace

Least(S) == CHOOSE j \in S : \A j2 \in S : j <= j2

Greatest(S) == CHOOSE j \in S : \A j2 \in S : j >= j2

\* the first state entry of the source, in file order
FirstStateEntry(file) == file[Least({j \in DOMAIN file : file[j].e = "state"})]

\* the state that was current just before event k of the last call
CurrentBefore(k) ==
  LET entered == {j \in 1..(k - 1) : Trace[j].ev = "enter"}
  IN IF entered = {} THEN last.prev ELSE Trace[Greatest(entered)].state

\* the state current at the end of the last call, by its trace
CurrentAfter == CurrentBefore(Len(Trace) + 1)

\* the actions of the init list of state d among events lo..hi, in order
InitEvents(d, lo, hi) ==
  SelectSeq(SubSeq(Trace, lo, hi), LAMBDA ev : ev.from = "init" /\ ev.state = d)

\* the actions of the selected trigger's own list, in order
TriggerSeq == SelectSeq(Trace, LAMBDA ev : ev.from = "trigger")

\* events evs are the statements / compiled actions 1..Len(evs) of a list,
\* each once and in order
RunsPrefixOf(evs, names) ==
  /\ Len(evs) <= Len(names)
  /\ \A j \in DOMAIN evs : evs[j].pos = j /\ evs[j].name = names[j]

StmtNames(stmts) == [j \in DOMAIN stmts |-> stmts[j].name]

\* what the constants evaluate to, with no event-data in scope
ConstantsOnly ==
  [n \in DOMAIN cm.constants |-> EvalValue(cm.constants[n], cm.constants).val]

\* the "initdone" of the entry of d made at event k (0: the init batch of d
\* did not return nil)
DoneIndex(k, d) ==
  LET done == {j \in (k + 1)..Len(Trace) : Trace[j].ev = "initdone" /\ Trace[j].state = d}
  IN IF done = {} THEN 0 ELSE Least(done)

(***************************************************************************)
(* C3                                                                      *)
(***************************************************************************)
InitRanOnce(st) ==
  LET evs == InitEvents(st.name, 1, Len(Trace))
  IN /\ Len(evs) = Len(st.init)
     /\ RunsPrefixOf(evs, StmtNames(st.init))
     /\ \A j \in DOMAIN evs : evs[j].ev = st.init[j].s

\* C3 as stated: after a successful build and a New that returns no error,
\* the current state is the first state of the file and each of its init
\* actions ran exactly once, in order.
C3_CurrentIsFirstState ==
  (last.op = "New" /\ last.ret = NoErr) =>
    /\ current[last.inst] = FirstStateEntry(ast).name
    /\ InitRanOnce(FirstStateEntry(ast))

\* C3 (amended): after a successful build and a New that returns no error,
\* New entered the first state of the file first and ran each of its init
\* actions exactly once, in order; the current state is the state entered
\* last during New, which is the first state when none of its init actions
\* is a move.
C3_EntersFirstState ==
  (last.op = "New" /\ last.ret = NoErr) =>
    /\ Trace # <<>>
    /\ Trace[1].ev = "enter" /\ Trace[1].state = FirstStateEntry(ast).name
    /\ InitRanOnce(FirstStateEntry(ast))
    /\ current[last.inst] = CurrentAfter
    /\ (\A j \in DOMAIN FirstStateEntry(ast).init :
          FirstStateEntry(ast).init[j].s # "move")
         => current[last.inst] = FirstStateEntry(ast).name

\* New returned nil on a first state with two init actions, one a move
C3_Witness ==
  /\ last.op = "New"
  /\ last.ret = NoErr
  /\ Len(FirstStateEntry(ast).init) >= 2
  /\ current[last.inst] # FirstStateEntry(ast).name

(***************************************************************************)
(* C4                                                                      *)
(***************************************************************************)
\* the move actions of the selected trigger's list whose destination is a
\* known state
TriggerMoves ==
  {k \in DOMAIN Trace :
     Trace[k].ev = "move" /\ Trace[k].from = "trigger" /\ Has(cm.states, Trace[k].name)}

SelectedActions == LastTriggers[last.sel].actions

ActionNames(actions) == [j \in DOMAIN actions |-> actions[j].name]

\* the part all readings share: the destination is entered at once, its init
\* actions run in order with the constants alone before any further action
\* of the trigger, and no other trigger fires
SynchronousMove(k) ==
  LET d == Trace[k].name
      done == DoneIndex(k, d)
      end == IF done = 0 THEN Len(Trace) ELSE done
      evs == InitEvents(d, k + 1, end)
  IN /\ k < Len(Trace)
     /\ Trace[k + 1].ev = "enter" /\ Trace[k + 1].state = d
     /\ RunsPrefixOf(evs, ActionNames(cm.states[d].Init))
     /\ done # 0 => Len(evs) = Len(cm.states[d].Init)
     /\ \A j \in DOMAIN evs : evs[j].ev = "call" => evs[j].ctx = ConstantsOnly
     /\ \A j \in (k + 1)..end : Trace[j].from # "trigger"
     /\ \A j \in TriggerEvents :
          Trace[j].state = last.prev /\ Trace[j].trg = last.sel

\* C4 as stated: a move of a trigger's action list to a known state makes it
\* current and runs its init actions once, in order, with the constants
\* only, before the next action; the remaining actions of the trigger then
\* run in order, no trigger of the destination fires, and the next Emit is
\* dispatched against the destination.
C4_MoveThenDestination ==
  (last.op = "Emit" /\ last.ret = NoErr) =>
    \A k \in TriggerMoves :
      /\ SynchronousMove(k)
      /\ DoneIndex(k, Trace[k].name) # 0
      /\ RunsPrefixOf(TriggerSeq, ActionNames(SelectedActions))
      /\ Len(TriggerSeq) = Len(SelectedActions)
      /\ current[last.inst] = Trace[k].name

\* C4 (amended): as stated, except that the remaining actions of the trigger
\* run (next, in order, up to the first that fails) when the destination's
\* init sequence completes, and that the next Emit is dispatched against the
\* state entered last during the Emit: the destination, unless its init
\* sequence or a later action of the trigger moved again.
C4_MoveIsSynchronous ==
  (last.op = "Emit" /\ Returned) =>
    \A k \in TriggerMoves :
      LET done == DoneIndex(k, Trace[k].name)
      IN /\ SynchronousMove(k)
         /\ RunsPrefixOf(TriggerSeq, ActionNames(SelectedActions))
         /\ (done # 0 /\ Trace[k].pos < Len(SelectedActions)) =>
              /\ done < Len(Trace)
              /\ Trace[done + 1].from = "trigger"
              /\ Trace[done + 1].pos = Trace[k].pos + 1
         /\ last.ret = NoErr => Len(TriggerSeq) = Len(SelectedActions)
         /\ current[last.inst] = CurrentAfter
         /\ (\A j \in (k + 1)..Len(Trace) : Trace[j].ev = "enter" => Trace[j].state = Trace[k].name)
              => current[last.inst] = Trace[k].name

\* a move in the middle of a trigger's list: the destination's init ran with
\* a constant where the trigger's own actions saw event-data of that name,
\* and an action of the trigger ran after it
C4_Witness ==
  /\ last.op = "Emit"
  /\ last.ret = NoErr
  /\ \E k \in TriggerMoves :
       /\ DoneIndex(k, Trace[k].name) # 0
       /\ \E j \in (k + 1)..DoneIndex(k, Trace[k].name) : \E j2 \in 1..(k - 1) :
            /\ Trace[j].ev = "call" /\ Trace[j2].ev = "call"
            /\ Has(Trace[j].ctx, "x") /\ Has(Trace[j2].ctx, "x")
            /\ Trace[j].ctx["x"] # Trace[j2].ctx["x"]
       /\ \E j \in TriggerEvents : j > DoneIndex(k, Trace[k].name)

(***************************************************************************)
(* C6                                                                      *)
(***************************************************************************)
\* the step is an Emit on instance i
EmitStepOn(i) == last'.op = "Emit" /\ last'.inst = i

\* the first trigger of a state that matches, by the definition of matching
FirstMatch(triggers, name, inputs) ==
  LET matching == {j \in DOMAIN triggers : TrgMatches(triggers[j], name, inputs)}
  IN IF matching = {} THEN 0 ELSE Least(matching)

\* an Emit step on instance i is dispatched against state s: the trigger it
\* selects is the first matching trigger of s
DispatchedAgainst(i, s) ==
  EmitStepOn(i) =>
    /\ last'.prev = s
    /\ last'.sel = FirstMatch(cm.states[s].Triggers, last'.name, last'.payload)

UnknownMoves == {k \in DOMAIN Trace : Trace[k].ev = "movefail"}

\* C6: a move to a name that is not a state of the machine returns the
\* unknown-state error naming it and leaves the current state as it was
\* before that move; an Emit made afterwards on the instance is dispatched
\* against that unchanged state.
C6_UnknownStateKeepsCurrent ==
  [][ /\ \A k \in DOMAIN Trace :
           (Trace[k].ev = "move" /\ ~Has(cm.states, Trace[k].name)) =>
             /\ k + 1 = Len(Trace)
             /\ Trace[k + 1].ev = "movefail" /\ Trace[k + 1].name = Trace[k].name
      /\ \A k \in UnknownMoves :
           /\ ~Has(cm.states, Trace[k].name)
           /\ k = Len(Trace)
           /\ last.ret = Err("unknown_state", Trace[k].name)
           /\ current[last.inst] = CurrentBefore(k)
           /\ DispatchedAgainst(last.inst, CurrentBefore(k)) ]_vars

\* an Emit moved to a known state and then, in its init actions, to an
\* unknown one: the state before the failing move is not the one before Emit
C6_Witness ==
  /\ last.op = "Emit"
  /\ last.ret.kind = "unknown_state"
  /\ UnknownMoves # {}
  /\ current[last.inst] # last.prev
  /\ current[last.inst] # NoState

(***************************************************************************)
(* C7                                                                      *)
(***************************************************************************)
\* the errors the evaluation of the constants can give on entering a state
ConstantErrors == {o.err : o \in EvalCtx(cm.constants)} \ {NoErr}

\* C7: when the k-th action of the selected trigger fails, the actions
\* before it have run in order, Emit returns the failure of that action and
\* runs nothing after it; the instance keeps a state of the machine, against
\* which a following Emit is dispatched as usual.
C7_FailureStopsActions ==
  [][ (last.op = "Emit" /\ Returned /\ TriggerEvents # {}) =>
        /\ RunsPrefixOf(TriggerSeq, ActionNames(SelectedActions))
        /\ (last.ret = NoErr) <=>
             (/\ Len(TriggerSeq) = Len(SelectedActions)
              /\ UnknownMoves = {}
              /\ \A k \in DOMAIN Trace : Trace[k].ev = "enter" =>
                   DoneIndex(k, Trace[k].state) # 0)
        /\ last.ret # NoErr =>
             /\ TriggerSeq[Len(TriggerSeq)].ev = "move"
             /\ \/ /\ Trace[Len(Trace)].ev = "movefail"
                   /\ last.ret = Err("unknown_state", Trace[Len(Trace)].name)
                \/ /\ Trace[Len(Trace)].ev = "enter"
                   /\ last.ret \in ConstantErrors
             /\ Has(cm.states, current[last.inst])
             /\ DispatchedAgainst(last.inst, current[last.inst]) ]_vars

\* the second of three actions failed after the first had run
C7_Witness ==
  /\ last.op = "Emit"
  /\ last.ret.kind = "unknown_state"
  /\ Len(TriggerSeq) = 2
  /\ Len(SelectedActions) = 3
  /\ TriggerSeq[1].ev = "call"

(***************************************************************************)
(* C8                                                                      *)
(***************************************************************************)
\* the init sequence of the state current after the last call completed
InitCompleted ==
  LET entered == {j \in DOMAIN Trace : Trace[j].ev = "enter"}
  IN /\ entered # {}
     /\ DoneIndex(Greatest(entered), Trace[Greatest(entered)].state) # 0

\* C8: when Emit returns an error, the current state is either the state
\* that was current before the call or a state whose init sequence ran to
\* completion.
C8_ErrorLeavesValidState ==
  (last.op = "Emit" /\ Returned /\ last.ret # NoErr) =>
    \/ current[last.inst] = last.prev
    \/ /\ current[last.inst] = CurrentAfter
       /\ InitCompleted

(***************************************************************************)
(* C9                                                                      *)
(***************************************************************************)
\* the event-data names the selected trigger declares, with their types
Declared == LastTriggers[last.sel].datatypes

\* the type of a payload value, by the Go type the host passed (-1: none)
PayloadType(hv) ==
  CASE hv.hk \in {"string", "Stringer"} -> ValueString
    [] hv.hk \in IntKinds -> ValueInt
    [] hv.hk \in FloatKinds -> ValueFloat
    [] hv.hk = "bool" -> ValueBool
    [] OTHER -> -1

Missing(n) == n \notin DOMAIN last.payload

Mismatched(n) ==
  /\ n \in DOMAIN last.payload
  /\ Declared[n] # ValueConstant
  /\ PayloadType(last.payload[n]) # Declared[n]

IsMissingError(e, n) == e = Err("missing_event_data", n)

IsMismatchError(e, n) ==
  \/ e = Err("type_mismatch_event_data", n)
  \/ e = Err("cannot_accept", last.payload[n].hk)

NothingRan == Trace = <<>> /\ current[last.inst] = last.prev

\* C9 as stated: for every event-data name n the selected trigger declares,
\* Emit returns a missing-event-data error if the payload has no n and a
\* type-mismatch error if n's type is not opaque-constant and the payload
\* value has another type; no action runs and the state is unchanged.
C9_EveryNameReported ==
  (last.op = "Emit" /\ last.sel # 0) =>
    \A n \in DOMAIN Declared :
      /\ Missing(n) => (last.ret.kind = "missing_event_data" /\ NothingRan)
      /\ Mismatched(n) =>
           (last.ret.kind \in {"type_mismatch_event_data", "cannot_accept"} /\ NothingRan)

\* C9 (amended): when some event-data name the selected trigger declares is
\* missing from the payload or, its type not being opaque-constant, has a
\* value of another type (an integer for a float included), Emit returns
\* the missing-event-data or type-mismatch error of one of those names, no
\* action runs and the state is unchanged; when no declared name is, Emit
\* returns neither error.
C9_SomeNameReported ==
  (last.op = "Emit" /\ last.sel # 0) =>
    LET failing == {n \in DOMAIN Declared : Missing(n) \/ Mismatched(n)}
    IN IF failing # {}
         THEN /\ \E n \in failing :
                   \/ Missing(n) /\ IsMissingError(last.ret, n)
                   \/ Mismatched(n) /\ IsMismatchError(last.ret, n)
              /\ NothingRan
         ELSE last.ret.kind \notin
                {"missing_event_data", "type_mismatch_event_data", "cannot_accept"}

\* an integer given for a declared float is reported as a mismatch while
\* another declared name is missing from the payload
C9_Witness ==
  /\ last.op = "Emit"
  /\ last.sel # 0
  /\ \E n \in DOMAIN Declared : Missing(n)
  /\ \E n \in DOMAIN Declared :
       /\ Declared[n] = ValueFloat
       /\ Mismatched(n)
       /\ last.payload[n].hk \in IntKinds
       /\ last.ret = Err("type_mismatch_event_data", n)

(***************************************************************************)
(* C10                                                                     *)
(***************************************************************************)
\* the type of a literal (-1: not a literal)
LiteralType(v) ==
  CASE v.k = "StringValue" -> ValueString
    [] v.k = "IntValue" -> ValueInt
    [] v.k = "FloatValue" -> ValueFloat
    [] v.k = "BoolValue" -> ValueBool
    [] OTHER -> -1

\* the type of constant `name` as a state at entry e of the file sees it: the
\* literal of the last assignment before e, else an opaque constant given by
\* the host (-1: not known from the file)
ConstType(file, e, name) ==
  LET sets == {j \in 1..(e - 1) : file[j].e = "set" /\ file[j].name = name}
  IN IF sets # {} THEN LiteralType(file[Greatest(sets)].value)
     ELSE IF name \in DOMAIN InitialConstants THEN ValueConstant
     ELSE -1

\* the type of event-data `name` in the actions of a trigger: the type the
\* registry gives it for the last condition, which has to declare it (-1
\* otherwise)
ParamType(conds, name) ==
  IF /\ Len(conds) > 0
     /\ conds[Len(conds)].name \in DOMAIN Reg.Triggers
     /\ \E j \in DOMAIN conds[Len(conds)].params : conds[Len(conds)].params[j].key = name
     /\ name \in DOMAIN Reg.Triggers[conds[Len(conds)].name].Outputs
    THEN Reg.Triggers[conds[Len(conds)].name].Outputs[name]
    ELSE -1

Declares(conds, name) ==
  \E c \in DOMAIN conds : \E j \in DOMAIN conds[c].params :
    conds[c].params[j].key = name

\* the type of an argument value written in a state at entry e, in the
\* actions of a trigger with conditions conds (<<>> for init actions)
ArgValueType(file, e, conds, v) ==
  IF v.k # "ReferenceValue" THEN LiteralType(v)
  ELSE IF Declares(conds, v.v) THEN ParamType(conds, v.v)
  ELSE ConstType(file, e, v.v)

\* a call of a registered action passes an argument the action does not
\* declare, or one whose value has another type than the declared one
FaultyCall(file, e, conds, stmt) ==
  /\ stmt.s = "call"
  /\ stmt.name \in DOMAIN Reg.Actions
  /\ \E j \in DOMAIN stmt.args :
       \/ stmt.args[j].key \notin DOMAIN Reg.Actions[stmt.name].Inputs
       \/ /\ ArgValueType(file, e, conds, stmt.args[j].value) # -1
          /\ ArgValueType(file, e, conds, stmt.args[j].value) #
               Reg.Actions[stmt.name].Inputs[stmt.args[j].key]

HasFaultyCall(file) ==
  \E e \in DOMAIN file :
    /\ file[e].e = "state"
    /\ \/ \E j \in DOMAIN file[e].init : FaultyCall(file, e, <<>>, file[e].init[j])
       \/ \E t \in DOMAIN file[e].triggers : \E j \in DOMAIN file[e].triggers[t].actions :
            FaultyCall(file, e, file[e].triggers[t].cond, file[e].triggers[t].actions[j])

ArgumentErrors == {"unspecified_argument", "type_mismatch_argument"}

\* every assignment entry of the file assigns a literal
LiteralAssignments(file) ==
  \A j \in DOMAIN file : file[j].e = "set" => LiteralType(file[j].value) # -1

\* C10: BuildMachine fails on a file in which an action call passes an
\* argument that is not a declared input of the action or whose value has
\* another type than the input's; no call on a machine that was built
\* returns an unspecified-argument or argument-type-mismatch error.  (Where
\* the constants of the file are literals, the build reports an argument
\* error for such calls only.)
C10_ArgumentsCheckedAtBuild ==
  /\ (built # Err("pending", "") /\ HasFaultyCall(ast)) => built # NoErr
  /\ (built # Err("pending", "") /\ built.kind \in ArgumentErrors /\ LiteralAssignments(ast))
       => HasFaultyCall(ast)
  /\ last.ret.kind \notin ArgumentErrors

\* the build rejected a call for its argument
C10_Witness ==
  /\ HasFaultyCall(ast)
  /\ built.kind \in ArgumentErrors

(***************************************************************************)
(* C11                                                                     *)
(***************************************************************************)
WasBuilt == built # Err("pending", "")

CondKeys(c) == {c.params[j].key : j \in DOMAIN c.params}

\* the names the conditions before the last declare, and the last one's
EarlierKeys(conds) == UNION {CondKeys(conds[c]) : c \in 1..(Len(conds) - 1)}

LastKeys(conds) == CondKeys(conds[Len(conds)])

\* the registry type of every name a condition declares is integer
IntegerCond(c) ==
  /\ c.name \in DOMAIN Reg.Triggers
  /\ \A n \in CondKeys(c) :
       /\ n \in DOMAIN Reg.Triggers[c.name].Outputs
       /\ Reg.Triggers[c.name].Outputs[n] = ValueInt
  /\ \A j \in DOMAIN c.params : c.params[j].value.k \in {"nil", "IntValue"}

\* a file of one state with one trigger whose only action passes the name
\* `ref`, declared by a condition and not a constant, to an integer input:
\* nothing but the visibility of ref decides whether it compiles
VisibilityCase(file) ==
  /\ Len(file) = 1 /\ file[1].e = "state"
  /\ \A j \in DOMAIN file[1].init : file[1].init[j] = Nop
  /\ Len(file[1].triggers) = 1
  /\ Len(file[1].triggers[1].cond) >= 1
  /\ \A c \in DOMAIN file[1].triggers[1].cond : IntegerCond(file[1].triggers[1].cond[c])
  /\ Len(file[1].triggers[1].actions) = 1
  /\ file[1].triggers[1].actions[1].name = "foo"
  /\ Len(file[1].triggers[1].actions[1].args) = 1
  /\ file[1].triggers[1].actions[1].args[1].key = "n"
  /\ file[1].triggers[1].actions[1].args[1].value.k = "ReferenceValue"
  /\ file[1].triggers[1].actions[1].args[1].value.v \notin DOMAIN InitialConstants
  /\ file[1].triggers[1].actions[1].args[1].value.v \in
       EarlierKeys(file[1].triggers[1].cond) \cup LastKeys(file[1].triggers[1].cond)

CaseConds == ast[1].triggers[1].cond

CaseRef == ast[1].triggers[1].actions[1].args[1].value.v

\* C11: an event-data name is visible to a trigger's actions exactly when
\* the last condition declares it: the trigger compiles when its action
\* references a name every later condition kept or a later one declared
\* again, and fails on an undefined variable when the action references a
\* name declared earlier that the last condition omits.
C11_OmittedNameNotVisible ==
  (WasBuilt /\ VisibilityCase(ast)) =>
    IF CaseRef \in LastKeys(CaseConds)
      THEN built = NoErr
      ELSE /\ built.kind = "cannot_determine_type"
           /\ built.cause = "undefined_variable"
           /\ built.var = CaseRef

\* {event, x}, then {event} only, then x again: x is visible, and the
\* trigger compiled
C11_Witness ==
  /\ WasBuilt
  /\ VisibilityCase(ast)
  /\ Len(CaseConds) = 3
  /\ CaseRef \in CondKeys(CaseConds[1])
  /\ CaseRef \notin CondKeys(CaseConds[2])
  /\ CaseRef \in CondKeys(CaseConds[3])
  /\ built = NoErr

(***************************************************************************)
(* C12                                                                     *)
(***************************************************************************)
\* two conditions of the list declare a name with different registry types
ConflictingConds(conds) ==
  \E c1 \in DOMAIN conds : \E c2 \in DOMAIN conds : \E n \in CondKeys(conds[c1]) :
    /\ c1 < c2
    /\ n \in CondKeys(conds[c2])
    /\ conds[c1].name \in DOMAIN Reg.Triggers
    /\ conds[c2].name \in DOMAIN Reg.Triggers
    /\ n \in DOMAIN Reg.Triggers[conds[c1].name].Outputs
    /\ n \in DOMAIN Reg.Triggers[conds[c2].name].Outputs
    /\ Reg.Triggers[conds[c1].name].Outputs[n] # Reg.Triggers[conds[c2].name].Outputs[n]

HasConflictingTrigger(file) ==
  \E e \in DOMAIN file : \E t \in DOMAIN file[e].triggers :
    file[e].e = "state" /\ ConflictingConds(file[e].triggers[t].cond)

\* C12: the build fails whenever two conditions of one trigger declare a
\* name with different registry types, wherever the two conditions stand in
\* the condition list.
C12_ConflictingRedeclarationFails ==
  (WasBuilt /\ HasConflictingTrigger(ast)) => built # NoErr

(***************************************************************************)
(* C13                                                                     *)
(***************************************************************************)
\* the names a list of `key = value` pairs references
ArgRefs(args) ==
  {args[a].value.v : a \in {a2 \in DOMAIN args : args[a2].value.k = "ReferenceValue"}}

\* the names referenced by the arguments of a statement list
StmtRefs(stmts) == UNION {ArgRefs(stmts[j].args) : j \in DOMAIN stmts}

\* the names referenced by the constraints of a trigger
CondRefs(conds) == UNION {ArgRefs(conds[c].params) : c \in DOMAIN conds}

\* the constants a state references: in its init statements, its
\* constraints and, where the trigger declares no event-data of that name,
\* its trigger actions
ConstantRefs(st) ==
  StmtRefs(st.init)
    \cup UNION {CondRefs(st.triggers[t].cond) : t \in DOMAIN st.triggers}
    \cup UNION {{r \in StmtRefs(st.triggers[t].actions) : ~Declares(st.triggers[t].cond, r)}
                 : t \in DOMAIN st.triggers}

DefinedBefore(file, e, r) ==
  \/ r \in DOMAIN InitialConstants
  \/ \E j \in 1..(e - 1) : file[j].e = "set" /\ file[j].name = r

DefinedAfter(file, e, r) ==
  \E j \in (e + 1)..Len(file) : file[j].e = "set" /\ file[j].name = r

\* C13: entries are processed in file order.  The build fails when a state
\* references a constant that only an entry after the state defines; a file
\* whose one state references the constant c in its init statement, in a
\* constraint or in a trigger action fails with the undefined variable c
\* unless `c = 1` stands before the state, and compiles when it does; a
\* constraint may reference an initial constant.
C13_FileOrder ==
  WasBuilt =>
    /\ \A e \in DOMAIN ast : \A r \in ConstantRefs(ast[e]) :
         (ast[e].e = "state" /\ ~DefinedBefore(ast, e, r) /\ DefinedAfter(ast, e, r))
           => built # NoErr
    /\ \A place \in OrderPlaces : \A b \in BOOLEAN : \A a \in BOOLEAN :
         ast = SrcOrder(place, b, a) =>
           IF b THEN built = NoErr
           ELSE /\ built.kind = "cannot_determine_type"
                /\ built.cause = "undefined_variable"
                /\ built.var = "c"
    /\ ast = SrcInitialConstant => built = NoErr

\* the constant is defined after the state that references it, and the
\* build failed
C13_Witness ==
  /\ WasBuilt
  /\ \E place \in OrderPlaces : ast = SrcOrder(place, FALSE, TRUE)
  /\ built.var = "c"

(***************************************************************************)
(* C14                                                                     *)
(***************************************************************************)
\* an assignment of the file whose value references a name no earlier entry
\* and no initial constant defines
HasUndefinedAssignment(file) ==
  \E e \in DOMAIN file :
    /\ file[e].e = "set"
    /\ file[e].value.k = "ReferenceValue"
    /\ ~DefinedBefore(file, e, file[e].value.v)

\* C14: an assignment is evaluated where it stands: the build fails with an
\* undefined variable when the value references a name not yet defined, and
\* a name keeps the value its assignment gave it when a name it referenced
\* is assigned again (after `c = 1; k = c; c = "s"` k is the integer 1 and
\* foo(n=k) compiles).
C14_AssignmentEvaluatedInPlace ==
  WasBuilt =>
    /\ HasUndefinedAssignment(ast) =>
         (built.kind = "undefined_variable" \/ built.cause = "undefined_variable")
    /\ ast = SrcReassign => built = NoErr

(***************************************************************************)
(* C15                                                                     *)
(***************************************************************************)
\* the entry of the file that defines state `name`
StateEntry(file, name) ==
  file[Greatest({j \in DOMAIN file : file[j].e = "state" /\ file[j].name = name})]

\* the statement of the file a "call" event of the trace executes
StmtOf(ev) ==
  IF ev.from = "init" THEN StateEntry(ast, ev.state).init[ev.pos]
  ELSE StateEntry(ast, ev.state).triggers[ev.trg].actions[ev.pos]

\* the value an argument expression has in the context of the call
ArgumentValue(v, ctx) ==
  IF v.k = "ReferenceValue" THEN ctx[v.v] ELSE EvalValue(v, EmptyMap).val

\* the arguments named in the call, each bound to its value
NamedArguments(stmt, ctx) ==
  [key \in {stmt.args[a].key : a \in DOMAIN stmt.args} |->
     ArgumentValue(stmt.args[CHOOSE a \in DOMAIN stmt.args : stmt.args[a].key = key].value, ctx)]

\* C15: the callable of a call action receives exactly the arguments named
\* in the call, each bound to the value of its argument expression, and no
\* other name.
C15_CallableGetsNamedArguments ==
  \A k \in DOMAIN Trace :
    Trace[k].ev = "call" =>
      Trace[k].ctx = NamedArguments(StmtOf(Trace[k]), Trace[k].ctx)

(***************************************************************************)
(* C16                                                                     *)
(***************************************************************************)
\* C16: when an init action of the entry state fails during New, the caller
\* gets no instance with a current state on which Emit can be called.
C16_FailedNewGivesNoInstance ==
  (last.op = "New" /\ last.ret # NoErr /\ Returned /\ UnknownMoves # {}) =>
    current[last.inst] = NoState

(***************************************************************************)
(* C17                                                                     *)
(***************************************************************************)
\* C17: every New and Emit (with the moves it makes) leaves the compiled
\* machine as it found it - constants, entry state and state table, hence as
\* BuildMachine returned it - and changes the current state of no instance
\* but the one called.
C17_MachineReadOnlyInstancesIsolated ==
  [][ built = NoErr =>
        /\ cm' = cm
        /\ cm'.constants = cm.constants
        /\ cm'.firstState = cm.firstState
        /\ cm'.states = cm.states
        /\ \A i \in Inst : i # last'.inst => current'[i] = current[i] ]_vars

\* an Emit bound event-data and moved one instance while the other instance
\* was in another state
C17_Witness ==
  /\ last.op = "Emit"
  /\ last.ret = NoErr
  /\ last.sel # 0
  /\ DOMAIN LastTriggers[last.sel].datatypes # {}
  /\ current[last.inst] # last.prev
  /\ \E i \in Inst : current[i] \notin {NoState, current[last.inst]}

(***************************************************************************)
(* C18                                                                     *)
(***************************************************************************)
OutcomeKind(e) ==
  IF e = NoErr THEN "success"
  ELSE IF e = EOF THEN "no trigger matched"
  ELSE IF e = Fatal THEN "stack overflow"
  ELSE "failure"

\* what is compared of a call: the states it passed through, the trigger
\* actions it ran, the state it ended in and the kind of its outcome
Behaviour(rs) ==
  [entered |-> SelectSeq(rs.trace, LAMBDA ev : ev.ev = "enter"),
   fired |-> SelectSeq(rs.trace, LAMBDA ev : ev.from = "trigger"),
   cur |-> rs.cur,
   outcome |-> OutcomeKind(rs.err)]

\* all runs of the two sets behave alike
SameBehaviour(runs1, runs2) ==
  \A r1 \in runs1 : \A r2 \in runs2 : Behaviour(r1) = Behaviour(r2)

Written == {f \in TriggerForms : f.tokens = toks}

\* C19: a trigger written with two or more comma-separated conditions
\* parses into one Trigger holding those conditions in source order,
\* followed by its actions in source order.
C19_ConditionListParses ==
  parsed # NotParsed =>
    \A f \in Written :
      Len(f.tree.cond) >= 2 =>
        /\ parsed.ok
        /\ parsed.val = f.tree
        /\ parsed.pos = Len(toks) + 1

(***************************************************************************)
(* Line continuation.  The logical lines of a source are its physical      *)
(* lines with every backslash that stands immediately before a line break  *)
(* removed together with that line break; the tokens of a logical line are *)
(* what the rule list gives on it from left to right.                      *)
(***************************************************************************)
Continues(text, k) == k < Len(text) /\ text[k] = "\\" /\ text[k + 1] = "\n"

RECURSIVE Joined(_)
Joined(text) ==
  IF text = <<>> THEN <<>>
  ELSE IF Continues(text, 1) THEN Joined(Drop(text, 2))
  ELSE <<Head(text)>> \o Joined(Tail(text))

RECURSIVE Scan(_)
Scan(text) ==
  IF text = <<>> THEN <<>>
  ELSE LET r == FirstRule(text)
       IN IF r = 0 THEN <<Tok("ILLEGAL", text[1])>> \o Scan(Drop(text, 1))
          ELSE IF RuleNames[r] = "" THEN Scan(Drop(text, RuleMatch(r, text)))
          ELSE <<Tok(RuleNames[r], Str(Take(text, RuleMatch(r, text))))>>
                 \o Scan(Drop(text, RuleMatch(r, text)))

RECURSIVE ScanLines(_)
ScanLines(text) ==
  IF text = <<>> THEN <<>>
  ELSE Scan(ReadBytes(text).line) \o ScanLines(ReadBytes(text).rest)

BeforeEOF(tokens) == SelectSeq(tokens, LAMBDA t : t.Token # "EOF")

AtEOF == lex # NoLexer /\ lex.Token = "EOF"

\* a source with a continued line, whose last line is ended by a line break
\* that is not itself continued
ContinuedSource(text) ==
  /\ \E k \in DOMAIN text : Continues(text, k)
  /\ text[Len(text)] = "\n"
  /\ ~Continues(text, Len(text) - 1)

\* C20: when a physical line ends with a backslash immediately before its
\* line break, the lexer joins it with the next physical line before any
\* rule is matched: once the lexer is at EOF, the tokens it produced are the
\* tokens of the logical lines of the source, in source order, so that the
\* backslash and the line break produce no token, in particular no ILLEGAL.
C20_ContinuationJoinsLines ==
  (AtEOF /\ ContinuedSource(source)) =>
    BeforeEOF(produced) = ScanLines(Joined(source))

(***************************************************************************)
(* The final line                                                          *)
(***************************************************************************)
\* C25: the tokens the lexer produces do not depend on whether the final
\* line ends with a newline: once the lexer is at EOF, the tokens it
\* produced for a source without backslashes are the tokens of all its
\* lines, in order, a final line without newline included, so that every
\* byte was matched by a rule or reported as ILLEGAL.
C25_FinalLineWithoutNewline ==
  (AtEOF /\ \A k \in DOMAIN source : source[k] # "\\") =>
    BeforeEOF(produced) = ScanLines(source)

(***************************************************************************)
(* C21                                                                     *)
(***************************************************************************)
\* a file `x = <literal>; state a { nop; on <conds> -> <call>(<key> = x); }`
\* whose last condition does not declare x
ShadowCase(file) ==
  /\ Len(file) = 2
  /\ file[1].e = "set" /\ file[1].name = "x" /\ LiteralType(file[1].value) # -1
  /\ file[2].e = "state"
  /\ Len(file[2].triggers) = 1
  /\ Len(file[2].triggers[1].cond) >= 1
  /\ "x" \notin LastKeys(file[2].triggers[1].cond)
  /\ Len(file[2].triggers[1].actions) = 1
  /\ file[2].triggers[1].actions[1].s = "call"
  /\ file[2].triggers[1].actions[1].name \in DOMAIN Reg.Actions
  /\ Len(file[2].triggers[1].actions[1].args) = 1
  /\ file[2].triggers[1].actions[1].args[1].key \in
       DOMAIN Reg.Actions[file[2].triggers[1].actions[1].name].Inputs
  /\ file[2].triggers[1].actions[1].args[1].value = ReferenceValue("x")

ShadowConds == ast[2].triggers[1].cond

ShadowInputType ==
  Reg.Actions[ast[2].triggers[1].actions[1].name].Inputs[ast[2].triggers[1].actions[1].args[1].key]

\* C21: a trigger's actions are type-checked against the constant map
\* overlaid with the event-data names visible after the last condition: a
\* constant x that is not a visible event-data name resolves to the
\* constant's own type, so that the call compiles when that type is the
\* input's and fails on the argument's type otherwise, also when an earlier
\* condition declared an event-data x that was dropped since.
C21_DroppedNameResolvesToConstant ==
  (WasBuilt /\ ShadowCase(ast)) =>
    IF LiteralType(ast[1].value) = ShadowInputType
      THEN built = NoErr
      ELSE built.kind = "type_mismatch_argument"

(***************************************************************************)
(* C22                                                                     *)
(***************************************************************************)
\* Emit's binding accepts the payload value hv as the value `lit` of a
\* literal: fitType maps it to a Value that evaluates to lit
BindsAs(hv, lit) ==
  /\ fitType(hv).err = NoErr
  /\ EvalValue(fitType(hv).val, EmptyMap).val = lit

LiteralKinds == {"string", "int64", "float64", "bool"}

\* every constraint of the condition is a literal, and the payload holds
\* for it a value that the binding accepts as that literal
SatisfiedAsBound(cond, name, payload) ==
  /\ cond.TriggerName = name
  /\ \A key \in DOMAIN cond.Value :
       /\ cond.Value[key].hk \in LiteralKinds
       /\ key \in DOMAIN payload
       /\ BindsAs(payload[key], cond.Value[key])

\* C22: matching and binding agree on payload values: when the payload of
\* an Emit holds, for every constraint of a condition of a trigger of the
\* current state, a value that the binding accepts as the constraint's
\* literal, the condition is satisfied, so that Emit selects that trigger or
\* one before it.
C22_MatchingAgreesWithBinding ==
  (last.op = "Emit" /\ built = NoErr) =>
    \A t \in DOMAIN LastTriggers : \A c \in DOMAIN LastTriggers[t].cond :
      SatisfiedAsBound(LastTriggers[t].cond[c], last.name, last.payload)
        => (last.sel # 0 /\ last.sel <= t)

(***************************************************************************)
(* C23                                                                     *)
(***************************************************************************)
\* the condition list the file gives for trigger t of state s
SourceConds(s, t) == StateEntry(ast, s).triggers[t].cond

\* the names the selected trigger's last condition declares
Required == LastKeys(SourceConds(last.prev, last.sel))

\* C23: the event-data names bound for the actions of a compiled trigger
\* are exactly the parameter names of its last condition: they are the
\* domain of its datatypes, and an Emit that selects the trigger, by
\* whichever of its conditions, fails without running an action when the
\* payload lacks one of them, and returns a missing-event-data error only
\* for one of them that the payload lacks.
C23_BoundNamesAreLastConditions ==
  built = NoErr =>
    /\ \A s \in DOMAIN cm.states : \A t \in DOMAIN cm.states[s].Triggers :
         DOMAIN cm.states[s].Triggers[t].datatypes = LastKeys(SourceConds(s, t))
    /\ (last.op = "Emit" /\ last.sel # 0) =>
         IF Required \subseteq DOMAIN last.payload
           THEN last.ret.kind # "missing_event_data"
           ELSE /\ last.ret # NoErr
                /\ Trace = <<>>
                /\ last.ret.kind = "missing_event_data"
                     => last.ret.name \in Required \ DOMAIN last.payload

\* the event matched a condition that is not the last one, its payload has
\* what that condition declares and lacks a name of the last condition
C23_Witness ==
  /\ built = NoErr
  /\ last.op = "Emit" /\ last.sel # 0
  /\ Len(SourceConds(last.prev, last.sel)) >= 2
  /\ SourceConds(last.prev, last.sel)[Len(SourceConds(last.prev, last.sel))].name # last.name
  /\ \E c \in DOMAIN SourceConds(last.prev, last.sel) :
       /\ SourceConds(last.prev, last.sel)[c].name = last.name
       /\ CondKeys(SourceConds(last.prev, last.sel)[c]) # {}
       /\ CondKeys(SourceConds(last.prev, last.sel)[c]) \subseteq DOMAIN last.payload
  /\ last.ret.kind = "missing_event_data"

(***************************************************************************)
(* C24                                                                     *)
(***************************************************************************)
\* C24: on a machine that BuildMachine accepted, New and every Emit return:
\* the chain of moves and init sequences of one call is finite, also when
\* an init sequence moves back to a state entered during the same call.
C24_CallsTerminate ==
  (built = NoErr /\ last.op \in {"New", "Emit"}) => last.ret # Fatal

====
